---- MODULE Spec2Model ----
(***************************************************************************)
(* Model of src/app.py: the legal-document RAG pipeline.                   *)
(*                                                                         *)
(*  - LegalDocumentChunker._create_chunks_for_chapter: the per-chapter     *)
(*    segmentation loop (specification SpecChunk).                         *)
(*  - LegalDocumentChunker.create_chapter_chunks: the loop over the        *)
(*    chapters (specification SpecDoc).                                    *)
(*  - LegalDocumentChapterDetector.detect_chapters with its AI path and    *)
(*    its rule-based fallback (specification SpecDetect).                  *)
(*  - LegalRAGProcessor.process_documents / _process_single_document and   *)
(*    the LegalDatabaseManager methods they call, over a MySQL connection  *)
(*    opened with autocommit=False (specification Spec).                   *)
(*                                                                         *)
(* Python indices are 0-based; sequences here are 1-based, so the slice    *)
(* s[a:b] is PySlice(s, a, b).  Texts are sequences of one-character       *)
(* strings.                                                                *)
(***************************************************************************)
EXTENDS Integers, Sequences, FiniteSets, TLC

\* ------------------------------------------------------------------------
\* Bounds of the model
\* ------------------------------------------------------------------------
\* longest chapter text drawn by SpecChunk
MaxLen == 7
\* chunk sizes drawn by SpecChunk: MinChunkSize..MaxChunkSize
MinChunkSize == 4
MaxChunkSize == 5
\* overlaps drawn by SpecChunk: 0..MaxOverlap (always below the chunk size)
MaxOverlap == 1
\* the smaller of the two large chunk sizes drawn by SpecChunk (the other is
\* one more), for which 70% of the chunk size is a whole number and the
\* overlap can exceed it
WideChunkSize == 10
\* number of process_documents runs in one behaviour of Spec
MaxRuns == 2
\* number of faults (database errors, failed extractions) injected in one
\* behaviour of Spec
MaxFaults == 1
\* number of files the scan finds (stats['total_files'])
NumFiles == 2
\* the chunker configuration of LegalRAGProcessor, scaled down
ProcChunkSize == 5
ProcOverlap == 1
\* longest document text drawn by SpecDoc, and the most chapters in its list
DocMaxLen == 6
MaxChapters == 2
\* most lines of a text drawn by SpecDetect
MaxDetLines == 3
\* files fingerprinted in one behaviour of SpecHash, the most bytes of a
\* file and its latest modification time
NumHashFiles == 2
MaxBytes == 2
MaxHashMTime == 1

\* ------------------------------------------------------------------------
\* Constants of the program
\* ------------------------------------------------------------------------
\* abs(ch['start_position'] - start_pos) < 50
DedupDistance == 50
\* len(variation) > 3
MinVariationLen == 3

\* ------------------------------------------------------------------------
\* Python helpers
\* ------------------------------------------------------------------------
SetMax(S) == CHOOSE x \in S : \A y \in S : y <= x
SetMin(S) == CHOOSE x \in S : \A y \in S : x <= y
Min2(a, b) == IF a <= b THEN a ELSE b
Max2(a, b) == IF a >= b THEN a ELSE b

\* characters a text is made of in SpecChunk
Alphabet == {"a", " ", "."}
\* the characters str.strip() removes (those that occur in the model)
Whitespace == {" ", "\n"}

\* a slice index as Python normalises it: negative counts from the end
PyIndex(s, a) == IF a < 0 THEN Max2(a + Len(s), 0) ELSE Min2(a, Len(s))
\* s[a:b]
PySlice(s, a, b) == SubSeq(s, PyIndex(s, a) + 1, PyIndex(s, b))
\* s.rfind(c): 0-based index of the last occurrence, -1 when absent
RFind(s, c) ==
    LET idx == {k \in 1..Len(s) : s[k] = c}
    IN  IF idx = {} THEN -1 ELSE SetMax(idx) - 1
\* s.strip()
Strip(s) ==
    LET idx == {k \in 1..Len(s) : s[k] \notin Whitespace}
    IN  IF idx = {} THEN <<>> ELSE SubSeq(s, SetMin(idx), SetMax(idx))

\* ------------------------------------------------------------------------
\* LegalDocumentChunker._create_chunks_for_chapter
\* ------------------------------------------------------------------------
\* the five break characters, in the order of the break_points list
BreakChars == <<".", ";", ":", "\n", " ">>

\* break_points: rfind of each break character in the tentative window
break_points(chunk_content) ==
    [k \in 1..Len(BreakChars) |-> RFind(chunk_content, BreakChars[k])]

\* bp > self.chunk_size * 0.7, in tenths
PastThresholdStrict(bp, cs) == 10 * bp > 7 * cs
PastThreshold(bp, cs) == PastThresholdStrict(bp, cs)

\* [bp for bp in break_points if bp > self.chunk_size * 0.7]
Candidates(chunk_content, cs) ==
    {bp \in {break_points(chunk_content)[k] : k \in 1..Len(BreakChars)} :
        PastThreshold(bp, cs)}

\* len(chapter_text) - start < self.chunk_size * 0.3, in tenths
TooSmallRest(rest, cs) == 10 * rest < 3 * cs

\* the chunk dict of the single-chunk branch
WholeChapterChunkIncomplete(text, chapter_start, chapter_end) ==
    [chunk_index |-> 0,
     content |-> text,
     chunk_size |-> Len(text),
     start_position |-> 0,
     end_position |-> Len(text),
     overlap_size |-> 0,
     absolute_start_position |-> chapter_start,
     absolute_end_position |-> chapter_end,
     is_chapter_complete |-> FALSE]
WholeChapterChunk(text, chapter_start, chapter_end) ==
    [chunk_index |-> 0,
     content |-> text,
     chunk_size |-> Len(text),
     start_position |-> 0,
     end_position |-> Len(text),
     overlap_size |-> 0,
     absolute_start_position |-> chapter_start,
     absolute_end_position |-> chapter_end,
     is_chapter_complete |-> TRUE]

\* the chunk dict built in the loop body
LoopChunkOverlapAlways(text, s, e, idx, ov, chapter_start) ==
    [chunk_index |-> idx,
     content |-> Strip(PySlice(text, s, e)),
     chunk_size |-> Len(Strip(PySlice(text, s, e))),
     start_position |-> s,
     end_position |-> e,
     overlap_size |-> ov,
     absolute_start_position |-> chapter_start + s,
     absolute_end_position |-> chapter_start + e,
     is_chapter_complete |-> FALSE]
LoopChunk(text, s, e, idx, ov, chapter_start) ==
    [chunk_index |-> idx,
     content |-> Strip(PySlice(text, s, e)),
     chunk_size |-> Len(Strip(PySlice(text, s, e))),
     start_position |-> s,
     end_position |-> e,
     overlap_size |-> IF idx > 0 THEN ov ELSE 0,
     absolute_start_position |-> chapter_start + s,
     absolute_end_position |-> chapter_start + e,
     is_chapter_complete |-> FALSE]

\* the window's tentative end: min(start + self.chunk_size, len(chapter_text))
RawEnd(text, s, cs) == Min2(s + cs, Len(text))

\* max([...]) raises ValueError on the empty list
MaxRaises(text, s, cs) ==
    /\ RawEnd(text, s, cs) < Len(text)
    /\ Candidates(PySlice(text, s, RawEnd(text, s, cs)), cs) = {}

\* the end of the chunk after the boundary snap (when max does not raise)
SnappedEnd(text, s, cs) ==
    LET end0 == RawEnd(text, s, cs)
        cands == Candidates(PySlice(text, s, end0), cs)
    IN  IF end0 < Len(text) /\ cands # {} /\ SetMax(cands) > 0
        THEN s + SetMax(cands) + 1
        ELSE end0

\* _create_chunks_for_chapter as a function: the list it returns, or the
\* exception that leaves it.  raised: ValueError of max(), or KeyError when
\* the chapter dict has no 'type' key (a chapter the AI path returned without
\* one).  Fuel counts the iterations left; the loop of a chunker whose overlap
\* lets start stand still never returns (status "diverge").
RECURSIVE ChunkLoop(_, _, _, _, _, _, _, _)
ChunkLoop(text, s, idx, acc, cs, ov, chapter_start, fuel) ==
    IF s >= Len(text) THEN [status |-> "ok", chunks |-> acc]
    ELSE IF fuel = 0 THEN [status |-> "diverge", chunks |-> acc]
    ELSE IF MaxRaises(text, s, cs) THEN [status |-> "raise", chunks |-> acc]
    ELSE LET e == SnappedEnd(text, s, cs)
             acc2 == Append(acc, LoopChunk(text, s, e, idx, ov, chapter_start))
         IN  IF TooSmallRest(Len(text) - (e - ov), cs)
             THEN [status |-> "ok", chunks |-> acc2]
             ELSE ChunkLoop(text, e - ov, idx + 1, acc2, cs, ov, chapter_start, fuel - 1)

CreateChunksForChapter(text, chapter_info, chapter_start, chapter_end, cs, ov) ==
    IF ~chapter_info.has_type THEN [status |-> "raise", chunks |-> <<>>]
    ELSE IF Len(text) <= cs
    THEN [status |-> "ok",
          chunks |-> <<WholeChapterChunk(text, chapter_start, chapter_end)>>]
    ELSE ChunkLoop(text, 0, 0, <<>>, cs, ov, chapter_start, Len(text) + 1)

\* the synthetic chapter of a document without chapters
WholeDocument == [title |-> "DOCUMENTO COMPLETO", start_position |-> 0, has_type |-> TRUE]

\* the for loop of create_chapter_chunks from chapter i on
RECURSIVE ChapterLoop(_, _, _, _, _, _)
ChapterLoop(text, chapters, i, acc, cs, ov) ==
    IF i > Len(chapters) THEN [status |-> "ok", chunks |-> acc]
    ELSE LET start_pos == chapters[i].start_position
             end_pos == IF i + 1 <= Len(chapters)
                        THEN chapters[i + 1].start_position
                        ELSE Len(text)
             ctext == Strip(PySlice(text, start_pos, end_pos))
             r == CreateChunksForChapter(ctext, chapters[i], start_pos, end_pos, cs, ov)
         IN  IF ctext = <<>> THEN ChapterLoop(text, chapters, i + 1, acc, cs, ov)
             ELSE IF r.status # "ok" THEN [status |-> r.status, chunks |-> acc]
             ELSE ChapterLoop(text, chapters, i + 1, acc \o r.chunks, cs, ov)

\* LegalDocumentChunker.create_chapter_chunks
create_chapter_chunks(text, chapters, cs, ov) ==
    IF chapters = <<>>
    THEN CreateChunksForChapter(text, WholeDocument, 0, Len(text), cs, ov)
    ELSE ChapterLoop(text, chapters, 1, <<>>, cs, ov)

VARIABLES
    \* ---- LegalDocumentChunker._create_chunks_for_chapter ----
    chapter_text,   \* the chapter's text
    chunk_size,     \* self.chunk_size
    overlap,        \* self.overlap
    start,          \* start of the current window
    chunk_index,    \* index of the next chunk
    chunks,         \* the list built so far
    cpc,            \* "off" | "entry" | "loop" | "returned" | "raised"
    \* ---- the file system and the MySQL server ----
    fs,             \* path -> [content, mtime]: the files under the base folder
    db,             \* the committed database
    \* ---- LegalDatabaseManager.connection ----
    alive,          \* the connection is open and usable
    tx,             \* the database as the connection's open transaction sees it
    \* ---- LegalRAGProcessor.process_documents ----
    run,            \* number of runs started
    pc,             \* "idle" | "check" | "checked" | "detect" | "doc" |
                    \* "chapters" | "chunk" | "chunks" | "finish" | "aborted"
    files,          \* the file_info list of the scan
    i,              \* index of the file being handled
    stats,          \* the run's counters
    file_status,    \* result of check_file_status for file i
    \* ---- LegalRAGProcessor._process_single_document ----
    text,           \* the extracted text
    chapters,       \* the detected chapters
    document_id,    \* id returned by insert_or_update_document (0: not assigned)
    \* ---- bookkeeping of the model ----
    faults,         \* faults injected so far
    status_query,   \* how the SELECT of the last check_file_status ended
    outcome,        \* path -> outcome of the file in the current run
    failures,       \* path -> the failures met while handling the file
    ops,            \* operations performed for the file last handled
    prev,           \* path -> outcome and file_info of the previous run
    dbAtRun,        \* the committed database when the run started
    dbAtFile        \* the committed database when file i was started

chunkVars == <<chapter_text, chunk_size, overlap, start, chunk_index, chunks, cpc>>
sessVars == <<db, alive, tx, faults>>
localVars == <<file_status, status_query, text, chapters, document_id>>
histVars == <<outcome, failures, ops, prev, dbAtRun, dbAtFile>>
procVars == <<fs, run, pc, files, i, stats, sessVars, localVars, histVars>>

VARIABLES
    \* ---- LegalDocumentChunker.create_chapter_chunks ----
    doc_text,       \* the text argument
    doc_chapters,   \* the chapters argument
    doc_cs,         \* self.chunk_size
    doc_ov,         \* self.overlap
    doc_i,          \* index of the chapter the for loop is at (1-based)
    all_chunks,     \* the list built so far
    owners,         \* for each chunk of all_chunks, the index of the chapter
                    \* it was cut from (0: the synthetic whole-document one)
    dpc             \* "off" | "entry" | "loop" | "returned" | "raised"

docVars == <<doc_text, doc_chapters, doc_cs, doc_ov, doc_i, all_chunks, owners, dpc>>

VARIABLES
    \* ---- LegalDocumentChapterDetector.detect_chapters ----
    det_text,       \* the text argument
    response,       \* what self.model.generate_content does when called
    ai_calls,       \* number of generate_content calls made so far
    line_i,         \* _fallback_chapter_detection: the line the scan is at
                    \* (1-based)
    det_chapters,   \* _fallback_chapter_detection: the list built so far
    det_result,     \* the list detect_chapters returned
    det_path,       \* "none" | "ai" | "fallback": what produced det_result
    det_exc,        \* the exception that sent the call to the fallback
    det_pc          \* "off" | "entry" | "fallback" | "returned" | "raised"

detVars == <<det_text, response, ai_calls, line_i, det_chapters, det_result,
             det_path, det_exc, det_pc>>

VARIABLES
    \* ---- SmartLocalFileProcessor._calculate_file_hash ----
    hash_files,     \* path -> the file at the path when it is fingerprinted
    hash_result     \* path -> what the call for the path returned or raised

hashVars == <<hash_files, hash_result>>

vars == <<chunkVars, procVars, docVars, detVars, hashVars>>

\* ------------------------------------------------------------------------
\* SmartLocalFileProcessor._calculate_file_hash
\* ------------------------------------------------------------------------
HashPaths == 1..NumHashFiles

\* the bytes a file holds
Bytes == {"x", "y"}
ByteStrings == UNION {[1..n -> Bytes] : n \in 0..MaxBytes}

\* a file at the time of the call: read_ok, open() and every f.read() succeed;
\* stat_ok, file_path.stat() succeeds (it fails for a path that is gone)
FileStates ==
    {f \in [content : ByteStrings, st_mtime : 0..MaxHashMTime,
            read_ok : BOOLEAN, stat_ok : BOOLEAN] : f.read_ok => f.stat_ok}

\* hashlib.md5(data).hexdigest(): equal data give equal digests, and the
\* data of the model have pairwise different digests
Md5(data) == <<"md5", data>>

\* f"{file_path.absolute()}_{file_stat.st_size}_{file_stat.st_mtime}".encode()
FallbackString(p, f) == <<"path", p, "_", Len(f.content), "_", f.st_mtime>>

NotHashed == <<"none">>
RaisedOSError == <<"raised", "OSError">>

\* what _calculate_file_hash(file_path) returns, or the exception leaving it
calculate_file_hash(p, f) ==
    IF f.read_ok THEN Md5(f.content)
    ELSE IF f.stat_ok THEN Md5(FallbackString(p, f))
    ELSE RaisedOSError

\* no file is being fingerprinted (the state while the other specifications
\* run)
HashOff ==
    /\ hash_files = [p \in HashPaths |-> [content |-> <<>>, st_mtime |-> 0,
                                          read_ok |-> TRUE, stat_ok |-> TRUE]]
    /\ hash_result = [p \in HashPaths |-> NotHashed]

\* ------------------------------------------------------------------------
\* The files, the database and the connection
\* ------------------------------------------------------------------------
Paths == 1..NumFiles

\* the contents a file can have: 0 holds only whitespace, 1 fits in one
\* chunk, 2 is longer than a chunk and has no break character
ContentIds == 0..2
DocText(c) ==
    CASE c = 0 -> <<" ">>
      [] c = 1 -> <<"a", "a", "a", "a", ".">>
      [] OTHER -> [k \in 1..(ProcChunkSize + 2) |-> "a"]

\* hashlib.md5 of the file's bytes: equal bytes give equal digests, and the
\* contents of the model have pairwise different digests
FileHash(c) == c

\* the modification times a file takes, in seconds
MTimes == 0..2

\* the file_info dict of one scanned file (the fields the pipeline reads)
FileInfo(f) ==
    [file_hash |-> FileHash(f.content),
     modification_timestamp |-> f.mtime,
     content |-> f.content]

\* a row of table documents (present = FALSE: no row for the path)
NoRow ==
    [present |-> FALSE, file_hash |-> 0, modification_timestamp |-> 0,
     chapters_count |-> 0]

\* the database after the schema was created: documents is keyed by
\* file_path (UNIQUE); the id of the row of path p is p, and the child rows
\* are kept under their document_id
EmptyDb ==
    [documents |-> [p \in Paths |-> NoRow],
     document_chapters |-> [p \in Paths |-> <<>>],
     document_chunks |-> [p \in Paths |-> <<>>],
     processing_logs |-> 0]

\* the rows insert_chapters and insert_chunks build from their lists; r, the
\* run that inserts them, stands for the fresh AUTO_INCREMENT ids
ChapterRows(r, chs) ==
    [k \in 1..Len(chs) |->
        [run |-> r, chapter_index |-> k - 1, title |-> chs[k].title,
         start_position |-> chs[k].start_position]]
ChunkRows(r, cks) ==
    [k \in 1..Len(cks) |-> [run |-> r, chunk |-> cks[k]]]

\* the chapter lists detect_chapters returns for a text that starts with
\* "aaaa": none, one located at offset 0, or one located at offset 0 whose
\* dict has no 'type' key (the AI path keeps whatever keys the model sent)
GoodChapter == [title |-> "aaaa", start_position |-> 0, has_type |-> TRUE]
UntypedChapter == [title |-> "aaaa", start_position |-> 0, has_type |-> FALSE]
DetectResults == {<<>>, <<GoodChapter>>, <<UntypedChapter>>}

\* the session: the committed database, the connection and its transaction
Session(d, t, al, n) == [db |-> d, tx |-> t, alive |-> al, faults |-> n]

\* how a database call can end: "ok"; "error": a statement raises
\* mysql.connector.Error; "lost": the connection is gone, cursor() raises and
\* the finally clause (`if cursor:` on an unbound name) raises
\* UnboundLocalError out of the method.  A lost connection stays lost.
Outcomes(S) ==
    IF ~S.alive THEN {"lost"}
    ELSE {"ok"} \cup (IF S.faults < MaxFaults THEN {"error", "lost"} ELSE {})

\* the connection is lost: the server rolls the open transaction back
Lost(S) ==
    [S EXCEPT !.tx = S.db, !.alive = FALSE,
              !.faults = IF S.alive THEN @ + 1 ELSE @]
\* self.connection.commit()
Commit(S) == [S EXCEPT !.db = S.tx]
\* self.connection.rollback()
Rollback(S) == [S EXCEPT !.tx = S.db]
\* a statement raised Error
Faulted(S) == [S EXCEPT !.faults = @ + 1]

\* ------------------------------------------------------------------------
\* LegalDatabaseManager
\* ------------------------------------------------------------------------
NotFound == [exists |-> FALSE, needs_update |-> TRUE, document_id |-> 0]

Abs(x) == IF x < 0 THEN -x ELSE x

\* stored_hash != current_hash or abs(stored_timestamp - current_timestamp) > 1
NeedsUpdateOrGe(row, info) ==
    \/ row.file_hash # info.file_hash
    \/ Abs(row.modification_timestamp - info.modification_timestamp) >= 1
NeedsUpdate(row, info) ==
    \/ row.file_hash # info.file_hash
    \/ Abs(row.modification_timestamp - info.modification_timestamp) > 1

\* check_file_status when the SELECT returns: result is the row of the path
FileStatusOf(row, p, info) ==
    IF row.present
    THEN [exists |-> TRUE, needs_update |-> NeedsUpdate(row, info),
          document_id |-> p]
    ELSE NotFound

\* check_file_status: [s: session after, raised, status]
check_file_status(S, f, p, info) ==
    CASE f = "lost" -> [s |-> Lost(S), raised |-> TRUE, status |-> NotFound]
      [] f = "error" -> [s |-> Faulted(S), raised |-> FALSE, status |-> NotFound]
      [] OTHER -> [s |-> S, raised |-> FALSE,
                   status |-> FileStatusOf(S.tx.documents[p], p, info)]

\* the row UPDATE / INSERT writes
DocRowNoTimestamp(info, chs) ==
    [present |-> TRUE, file_hash |-> info.file_hash,
     modification_timestamp |-> 0,
     chapters_count |-> Len(chs)]
DocRow(info, chs) ==
    [present |-> TRUE, file_hash |-> info.file_hash,
     modification_timestamp |-> info.modification_timestamp,
     chapters_count |-> Len(chs)]

\* insert_or_update_document: [s, raised, result] (result 0 is None).  With
\* document_id given it UPDATEs the row of that id; otherwise it INSERTs, and
\* the UNIQUE key on file_path makes the INSERT raise IntegrityError when the
\* path has a row.
insert_or_update_document(S, f, p, info, chs, docid) ==
    CASE f = "lost" -> [s |-> Lost(S), raised |-> TRUE, result |-> 0]
      [] f = "error" -> [s |-> Rollback(Faulted(S)), raised |-> FALSE, result |-> 0]
      [] OTHER ->
            IF docid # 0
            THEN [s |-> Commit([S EXCEPT !.tx.documents[docid] = DocRow(info, chs)]),
                  raised |-> FALSE, result |-> docid]
            ELSE IF S.tx.documents[p].present
            THEN [s |-> Rollback(S), raised |-> FALSE, result |-> 0]
            ELSE [s |-> Commit([S EXCEPT !.tx.documents[p] = DocRow(info, chs)]),
                  raised |-> FALSE, result |-> p]

\* insert_chapters: DELETE the document's rows, build chapter_values
\* (chapter['type'] raises KeyError, which `except Error` does not catch, so
\* nothing is rolled back), executemany, commit.  [s, raised, result]
insert_chapters(S, f, docid, chs, r) ==
    CASE f = "lost" -> [s |-> Lost(S), raised |-> TRUE, result |-> FALSE]
      [] f = "error" -> [s |-> Rollback(Faulted(S)), raised |-> FALSE, result |-> FALSE]
      [] OTHER ->
            LET deleted == [S EXCEPT !.tx.document_chapters[docid] = <<>>]
            IN  IF \E k \in 1..Len(chs) : ~chs[k].has_type
                THEN [s |-> deleted, raised |-> TRUE, result |-> FALSE]
                ELSE [s |-> Commit([deleted EXCEPT
                                !.tx.document_chapters[docid] = ChapterRows(r, chs)]),
                      raised |-> FALSE, result |-> TRUE]

\* insert_chunks: DELETE the document's rows, INSERT the new ones in batches,
\* commit.  [s, raised, result]
insert_chunks(S, f, docid, cks, r) ==
    CASE f = "lost" -> [s |-> Lost(S), raised |-> TRUE, result |-> FALSE]
      [] f = "error" -> [s |-> Rollback(Faulted(S)), raised |-> FALSE, result |-> FALSE]
      [] OTHER ->
            [s |-> Commit([S EXCEPT !.tx.document_chunks[docid] = ChunkRows(r, cks)]),
             raised |-> FALSE, result |-> TRUE]

\* log_processing: INSERT a log row and commit; an Error is only logged, with
\* no rollback.  [s, raised]
log_processing(S, f) ==
    CASE f = "lost" -> [s |-> Lost(S), raised |-> TRUE]
      [] f = "error" -> [s |-> Faulted(S), raised |-> FALSE]
      [] OTHER -> [s |-> Commit([S EXCEPT !.tx.processing_logs = @ + 1]),
                   raised |-> FALSE]

\* the except clause of _process_single_document: log_processing when
\* document_id is a local by then; escaped: the handler itself raised, and
\* the exception reaches the except clause of process_documents
ExceptHandler(S, g, has_document_id) ==
    IF has_document_id
    THEN [s |-> log_processing(S, g).s, escaped |-> log_processing(S, g).raised]
    ELSE [s |-> S, escaped |-> FALSE]
\* the outcomes the handler's log_processing can have
HandlerOutcomes(S, has_document_id) ==
    IF has_document_id THEN Outcomes(S) ELSE {"ok"}

\* ------------------------------------------------------------------------
\* LegalRAGProcessor.process_documents and _process_single_document
\* ------------------------------------------------------------------------
Cur == Session(db, tx, alive, faults)

SetSession(S) ==
    /\ db' = S.db
    /\ tx' = S.tx
    /\ alive' = S.alive
    /\ faults' = S.faults

\* processing_time: "initial" is the 0 of the dict literal, "measured" the
\* value the finally clause assigns
ZeroStats ==
    [total_files |-> 0, new_files |-> 0, updated_files |-> 0,
     unchanged_files |-> 0, failed_files |-> 0, errors |-> 0,
     processing_time |-> "initial"]

\* the outer except clause: stats['errors'].append(error_msg)
OuterExceptSilent(st) == st
OuterExcept(st) == [st EXCEPT !.errors = @ + 1]

\* the finally clause: stats['processing_time'] = round(...)
FinallyStats(st) == [st EXCEPT !.processing_time = "measured"]

\* the counter an outcome increments
CounterOf(o) ==
    CASE o = "unchanged" -> "unchanged_files"
      [] o = "new" -> "new_files"
      [] o = "updated" -> "updated_files"
      [] OTHER -> "failed_files"

\* the stats after a file ended with outcome o; escaped: an exception reached
\* the except clause of the file loop, which also appends to stats['errors']
StatsAfterNoExceptCount(st, o, escaped) ==
    IF escaped THEN [st EXCEPT !.errors = @ + 1]
    ELSE [st EXCEPT ![CounterOf(o)] = @ + 1]
StatsAfter(st, o, escaped) ==
    [st EXCEPT ![CounterOf(o)] = @ + 1,
               !.errors = IF escaped THEN @ + 1 ELSE @]

\* if file_status['exists'] and not file_status['needs_update']
IsUnchangedMissingNot(fstatus) == fstatus.exists /\ fstatus.needs_update
IsUnchanged(fstatus) == fstatus.exists /\ ~fstatus.needs_update

\* the outcome of a file whose processing returned a tuple
SuccessOutcome(fstatus) == IF fstatus.exists THEN "updated" ELSE "new"

Fails(fl) == failures' = [failures EXCEPT ![i] = @ \cup fl]

\* the file loop moves to the next file: one counter is incremented, the
\* locals of the iteration are dropped
EndFile(o, escaped) ==
    /\ stats' = StatsAfter(stats, o, escaped)
    /\ outcome' = [outcome EXCEPT ![i] = o]
    /\ i' = i + 1
    /\ pc' = IF i = NumFiles THEN "finish" ELSE "check"
    /\ file_status' = NotFound
    /\ status_query' = "none"
    /\ text' = <<>>
    /\ chapters' = <<>>
    /\ document_id' = 0

Frame == UNCHANGED <<fs, run, files, prev, dbAtRun, chunkVars, docVars, detVars, hashVars>>

\* the state before the first run: no connection, an empty database, the
\* files on disk
ProcInit ==
    /\ fs \in [Paths -> [content : ContentIds, mtime : MTimes]]
    /\ \A p \in Paths : fs[p].mtime = IF p = 1 THEN 0 ELSE SetMax(MTimes)
    /\ db = EmptyDb
    /\ tx = EmptyDb
    /\ alive = FALSE
    /\ faults = 0
    /\ run = 0
    /\ pc = "idle"
    /\ files = [p \in Paths |-> FileInfo(fs[p])]
    /\ i = 1
    /\ stats = ZeroStats
    /\ file_status = NotFound
    /\ status_query = "none"
    /\ text = <<>>
    /\ chapters = <<>>
    /\ document_id = 0
    /\ outcome = [p \in Paths |-> "none"]
    /\ failures = [p \in Paths |-> {}]
    /\ ops = <<>>
    /\ prev = [p \in Paths |-> [outcome |-> "none", info |-> FileInfo(fs[p])]]
    /\ dbAtRun = EmptyDb
    /\ dbAtFile = EmptyDb

\* the pipeline is not running (its state while SpecChunk runs)
ProcOff ==
    /\ fs = [p \in Paths |-> [content |-> 0, mtime |-> 0]]
    /\ db = EmptyDb
    /\ tx = EmptyDb
    /\ alive = FALSE
    /\ faults = 0
    /\ run = 0
    /\ pc = "off"
    /\ files = [p \in Paths |-> FileInfo(fs[p])]
    /\ i = 1
    /\ stats = ZeroStats
    /\ file_status = NotFound
    /\ status_query = "none"
    /\ text = <<>>
    /\ chapters = <<>>
    /\ document_id = 0
    /\ outcome = [p \in Paths |-> "none"]
    /\ failures = [p \in Paths |-> {}]
    /\ ops = <<>>
    /\ prev = [p \in Paths |-> [outcome |-> "none", info |-> FileInfo(fs[p])]]
    /\ dbAtRun = EmptyDb
    /\ dbAtFile = EmptyDb

\* process_documents up to the file loop: connect, scan the files (each
\* file_info carries the hash and mtime read now), reset the counters
StartRun ==
    /\ pc = "idle"
    /\ run < MaxRuns
    /\ run' = run + 1
    /\ alive' = TRUE
    /\ tx' = db
    /\ files' = [p \in Paths |-> FileInfo(fs[p])]
    /\ stats' = [ZeroStats EXCEPT !.total_files = NumFiles]
    /\ i' = 1
    /\ pc' = "check"
    /\ prev' = [p \in Paths |-> [outcome |-> outcome[p], info |-> files[p]]]
    /\ outcome' = [p \in Paths |-> "none"]
    /\ failures' = [p \in Paths |-> {}]
    /\ ops' = <<>>
    /\ dbAtRun' = db
    /\ dbAtFile' = db
    /\ UNCHANGED <<fs, db, faults, localVars, chunkVars, docVars, detVars, hashVars>>

\* self.db_manager.connect() raises: the outer except clause records the
\* error, no file is listed or handled, and control passes to the finally
\* clause
ConnectRaises ==
    /\ pc = "idle"
    /\ run < MaxRuns
    /\ faults < MaxFaults
    /\ faults' = faults + 1
    /\ run' = run + 1
    /\ alive' = FALSE
    /\ tx' = db
    /\ stats' = OuterExcept(ZeroStats)
    /\ i' = 1
    /\ pc' = "aborted"
    /\ prev' = [p \in Paths |-> [outcome |-> outcome[p], info |-> files[p]]]
    /\ outcome' = [p \in Paths |-> "none"]
    /\ failures' = [p \in Paths |-> {}]
    /\ ops' = <<>>
    /\ dbAtRun' = db
    /\ dbAtFile' = db
    /\ UNCHANGED <<fs, db, files, localVars, chunkVars, docVars, detVars, hashVars>>

\* between two runs somebody rewrites or touches one file
ModifyFile ==
    /\ pc = "idle"
    /\ 0 < run
    /\ run < MaxRuns
    /\ \A q \in Paths : FileInfo(fs[q]) = files[q]
    /\ \E p \in Paths, c \in ContentIds, m \in MTimes :
          /\ [content |-> c, mtime |-> m] # fs[p]
          /\ fs' = [fs EXCEPT ![p] = [content |-> c, mtime |-> m]]
    /\ UNCHANGED <<run, pc, files, i, stats, sessVars, localVars, histVars, chunkVars, docVars, detVars, hashVars>>

\* file_status = self.db_manager.check_file_status(file_info); an exception
\* out of it is caught by the file loop, which counts the file as failed
CheckFileStatus ==
    /\ pc = "check"
    /\ \E f \in Outcomes(Cur) :
          LET R == check_file_status(Cur, f, i, files[i])
          IN  /\ SetSession(R.s)
              /\ IF R.raised
                 THEN /\ EndFile("failed", TRUE)
                      /\ Fails({"status_check"})
                 ELSE /\ file_status' = R.status
                      /\ status_query' = f
                      /\ pc' = "checked"
                      /\ Fails(IF f = "error" THEN {"lookup"} ELSE {})
                      /\ UNCHANGED <<stats, outcome, i, text, chapters,
                                     document_id>>
    /\ ops' = <<"check">>
    /\ dbAtFile' = db
    /\ Frame

\* the file exists and needs no update: count it and continue
SkipUnchanged ==
    /\ pc = "checked"
    /\ IsUnchanged(file_status)
    /\ EndFile("unchanged", FALSE)
    /\ UNCHANGED <<sessVars, failures, ops, dbAtFile>>
    /\ Frame

\* _process_single_document, text extraction: extract_text returns "" when
\* it fails; without text the error is logged and None is returned
ExtractText ==
    /\ pc = "checked"
    /\ ~IsUnchanged(file_status)
    /\ \E okx \in {TRUE} \cup (IF faults < MaxFaults THEN {FALSE} ELSE {}) :
          LET S1 == IF okx THEN Cur ELSE Faulted(Cur)
              txt == IF okx THEN DocText(files[i].content) ELSE <<>>
          IN  IF Strip(txt) = <<>>
              THEN \E g \in Outcomes(S1) :
                      /\ SetSession(log_processing(S1, g).s)
                      /\ EndFile("failed", FALSE)
                      /\ Fails({"extraction"})
              ELSE /\ SetSession(S1)
                   /\ text' = txt
                   /\ pc' = "detect"
                   /\ UNCHANGED <<stats, outcome, i, file_status, status_query,
                                  chapters, document_id, failures>>
    /\ ops' = Append(ops, "extract")
    /\ UNCHANGED dbAtFile
    /\ Frame

\* chapters = self.chapter_detector.detect_chapters(text, name)
DetectChapters ==
    /\ pc = "detect"
    /\ \E chs \in DetectResults : chapters' = chs
    /\ pc' = "doc"
    /\ ops' = Append(ops, "detect")
    /\ UNCHANGED <<stats, outcome, i, file_status, status_query, text,
                   document_id, failures, sessVars, dbAtFile>>
    /\ Frame

\* document_id = insert_or_update_document(...); None ends the file as failed
InsertOrUpdateDocument ==
    /\ pc = "doc"
    /\ \E f \in Outcomes(Cur) :
          LET R == insert_or_update_document(Cur, f, i, files[i], chapters,
                                             file_status.document_id)
          IN  /\ SetSession(R.s)
              /\ IF R.raised \/ R.result = 0
                 THEN /\ EndFile("failed", FALSE)
                      /\ Fails({"document"})
                 ELSE /\ document_id' = R.result
                      /\ pc' = "chapters"
                      /\ UNCHANGED <<stats, outcome, i, file_status, status_query,
                                     text, chapters, failures>>
    /\ ops' = Append(ops, "document")
    /\ UNCHANGED dbAtFile
    /\ Frame

\* if chapters: success = insert_chapters(...); False is only logged
InsertChapters ==
    /\ pc = "chapters"
    /\ chapters # <<>>
    /\ \E f \in Outcomes(Cur) :
          LET R == insert_chapters(Cur, f, document_id, chapters, run)
          IN  IF R.raised
              THEN \E g \in Outcomes(R.s) :
                      LET H == ExceptHandler(R.s, g, TRUE)
                      IN  /\ SetSession(H.s)
                          /\ EndFile("failed", H.escaped)
                          /\ Fails({"chapters"})
              ELSE /\ SetSession(R.s)
                   /\ pc' = "chunk"
                   /\ Fails(IF R.result THEN {} ELSE {"chapters"})
                   /\ UNCHANGED <<stats, outcome, i, file_status, status_query,
                                  text, chapters, document_id>>
    /\ ops' = Append(ops, "chapters")
    /\ UNCHANGED dbAtFile
    /\ Frame

\* an empty chapter list: insert_chapters is not called
SkipInsertChapters ==
    /\ pc = "chapters"
    /\ chapters = <<>>
    /\ pc' = "chunk"
    /\ UNCHANGED <<stats, outcome, i, localVars, failures, ops, sessVars, dbAtFile>>
    /\ Frame

\* chunks = self.chunker.create_chapter_chunks(text, chapters); an exception
\* goes to the except clause; an empty list is logged and counted as success
CreateChapterChunks ==
    /\ pc = "chunk"
    /\ LET r == create_chapter_chunks(text, chapters, ProcChunkSize, ProcOverlap)
       IN  /\ r.status # "diverge"
           /\ IF r.status = "raise"
              THEN \E g \in Outcomes(Cur) :
                      LET H == ExceptHandler(Cur, g, TRUE)
                      IN  /\ SetSession(H.s)
                          /\ EndFile("failed", H.escaped)
                          /\ Fails({"chunking"})
              ELSE IF r.chunks = <<>>
              THEN \E g \in Outcomes(Cur) :
                      LET L == log_processing(Cur, g)
                          H == ExceptHandler(L.s, "lost", TRUE)
                      IN  IF L.raised
                          THEN /\ SetSession(H.s)
                               /\ EndFile("failed", TRUE)
                               /\ Fails({"log"})
                          ELSE /\ SetSession(L.s)
                               /\ EndFile(SuccessOutcome(file_status), FALSE)
                               /\ UNCHANGED failures
              ELSE /\ pc' = "chunks"
                   /\ UNCHANGED <<stats, outcome, i, localVars, failures, sessVars>>
    /\ ops' = Append(ops, "chunk")
    /\ UNCHANGED dbAtFile
    /\ Frame

\* success = insert_chunks(document_id, chunks); on success the run is
\* logged and (chapters, chunks) returned, otherwise None
InsertChunks ==
    /\ pc = "chunks"
    /\ LET cks == create_chapter_chunks(text, chapters, ProcChunkSize, ProcOverlap).chunks
       IN  \E f \in Outcomes(Cur) :
              LET R == insert_chunks(Cur, f, document_id, cks, run)
              IN  IF R.raised
                  THEN /\ SetSession(ExceptHandler(R.s, "lost", TRUE).s)
                       /\ EndFile("failed", TRUE)
                       /\ Fails({"chunks"})
                  ELSE IF ~R.result
                  THEN /\ SetSession(R.s)
                       /\ EndFile("failed", FALSE)
                       /\ Fails({"chunks"})
                  ELSE \E g \in Outcomes(R.s) :
                          LET L == log_processing(R.s, g)
                          IN  IF L.raised
                              THEN /\ SetSession(ExceptHandler(L.s, "lost", TRUE).s)
                                   /\ EndFile("failed", TRUE)
                                   /\ Fails({"log"})
                              ELSE /\ SetSession(L.s)
                                   /\ EndFile(SuccessOutcome(file_status), FALSE)
                                   /\ UNCHANGED failures
    /\ ops' = Append(ops, "chunks")
    /\ UNCHANGED dbAtFile
    /\ Frame

\* the finally clause: disconnect (an open transaction is rolled back by the
\* server) and return stats
EndRun ==
    /\ pc \in {"finish", "aborted"}
    /\ pc' = "idle"
    /\ alive' = FALSE
    /\ tx' = db
    /\ stats' = FinallyStats(stats)
    /\ UNCHANGED <<fs, run, files, i, db, faults, localVars, histVars, chunkVars, docVars, detVars, hashVars>>

Next ==
    \/ StartRun
    \/ ConnectRaises
    \/ ModifyFile
    \/ CheckFileStatus
    \/ SkipUnchanged
    \/ ExtractText
    \/ DetectChapters
    \/ InsertOrUpdateDocument
    \/ InsertChapters
    \/ SkipInsertChapters
    \/ CreateChapterChunks
    \/ InsertChunks
    \/ EndRun

\* the chunker is not running (its state while Spec runs)
ChunkOff ==
    /\ chapter_text = <<>>
    /\ chunk_size = MinChunkSize
    /\ overlap = 0
    /\ start = 0
    /\ chunk_index = 0
    /\ chunks = <<>>
    /\ cpc = "off"

Texts == UNION {[1..n -> Alphabet] : n \in 0..MaxLen}

\* the chapter texts drawn with the large chunk sizes: letters up to 70% of
\* WideChunkSize, then any characters, one to three characters longer than
\* WideChunkSize
WidePrefix == (7 * WideChunkSize) \div 10
WideTexts ==
    {[k \in 1..WidePrefix |-> "a"] \o t :
        t \in UNION {[1..n -> Alphabet] :
                        n \in (WideChunkSize - WidePrefix + 1)..(WideChunkSize - WidePrefix + 3)}}

\* iterations of the while loop the model follows: more than any call whose
\* start advances at every iteration makes on the texts above
MaxIterations == WideChunkSize + 4

\* ------------------------------------------------------------------------
\* LegalDocumentChunker.create_chapter_chunks, one chapter at a step
\* ------------------------------------------------------------------------
\* create_chapter_chunks is not running (its state while the other
\* specifications run)
DocOff ==
    /\ doc_text = <<>>
    /\ doc_chapters = <<>>
    /\ doc_cs = MinChunkSize
    /\ doc_ov = 0
    /\ doc_i = 1
    /\ all_chunks = <<>>
    /\ owners = <<>>
    /\ dpc = "off"

\* ------------------------------------------------------------------------
\* LegalDocumentChapterDetector: strings
\* ------------------------------------------------------------------------
\* str.lower() on the letters that occur in the model
UpperLetters == <<"C", "A", "P", "Í", "T", "U", "L", "O", "I", "S", "E", "Ç", "Ã", "M", "V", "X">>
LowerLetters == <<"c", "a", "p", "í", "t", "u", "l", "o", "i", "s", "e", "ç", "ã", "m", "v", "x">>
Lower(c) ==
    IF \E k \in 1..Len(UpperLetters) : UpperLetters[k] = c
    THEN LowerLetters[CHOOSE k \in 1..Len(UpperLetters) : UpperLetters[k] = c]
    ELSE c
LowerStr(s) == [k \in 1..Len(s) |-> Lower(s[k])]

\* s.find(sub): 0-based index of the first occurrence, -1 when absent
Find(s, sub) ==
    LET hits == {k \in 0..(Len(s) - Len(sub)) : SubSeq(s, k + 1, k + Len(sub)) = sub}
    IN  IF hits = {} THEN -1 ELSE SetMin(hits)

\* the index, from k on, where the run of characters of S ends (k - 1 when
\* s[k] is not in S)
RunEnd(s, k, S) ==
    LET stops == {m \in k..Len(s) : s[m] \notin S}
    IN  IF stops = {} THEN Max2(Len(s), k - 1) ELSE SetMin(stops) - 1

\* text.split('\n')
NewlineAt(s) == {k \in 1..Len(s) : s[k] = "\n"}
LineBoundary(s, j) ==
    IF j = 0 THEN 0
    ELSE IF j > Cardinality(NewlineAt(s)) THEN Len(s) + 1
    ELSE CHOOSE k \in NewlineAt(s) : Cardinality({m \in NewlineAt(s) : m < k}) = j - 1
SplitLines(s) ==
    [j \in 1..(Cardinality(NewlineAt(s)) + 1) |->
        SubSeq(s, LineBoundary(s, j - 1) + 1, LineBoundary(s, j) - 1)]

\* '\n'.join(lines)
RECURSIVE JoinLines(_)
JoinLines(ls) ==
    IF ls = <<>> THEN <<>>
    ELSE IF Len(ls) = 1 THEN ls[1]
    ELSE JoinLines(SubSeq(ls, 1, Len(ls) - 1)) \o <<"\n">> \o ls[Len(ls)]

\* chapters.sort(key=lambda x: x['start_position']): a stable sort
InsertByStart(sorted, ch) ==
    LET k == Cardinality({j \in 1..Len(sorted) :
                             sorted[j].start_position <= ch.start_position})
    IN  SubSeq(sorted, 1, k) \o <<ch>> \o SubSeq(sorted, k + 1, Len(sorted))
RECURSIVE SortByStart(_)
SortByStart(chs) ==
    IF chs = <<>> THEN <<>>
    ELSE InsertByStart(SortByStart(SubSeq(chs, 1, Len(chs) - 1)), chs[Len(chs)])

\* ------------------------------------------------------------------------
\* LegalDocumentChapterDetector._fallback_chapter_detection
\* ------------------------------------------------------------------------
\* the characters of [IVX]+ under (?i), of \d+ and of the separator class
\* (whitespace and dashes; the hyphen is the dash of the model)
RomanChars == {"I", "V", "X", "i", "v", "x"}
DigitChars == {"0", "1", "2", "3", "4", "5", "6", "7", "8", "9"}
SeparatorChars == Whitespace \cup {"-"}

\* the ordered pattern table, for the patterns a line of the model can
\* match: (?i)^(KEYWORD\s+[IVX]+|KEYWORD\s+\d+)[\s\-]*(.{0,100}?)(?=\n|\r|$)
\* with KEYWORD = CAPÍTULO and SEÇÃO.  The lines of the model are shorter
\* than the 100 characters of the second group.
patterns ==
    <<[keyword |-> <<"c", "a", "p", "í", "t", "u", "l", "o">>,
       type |-> "CAPITULO", level |-> 1],
      [keyword |-> <<"s", "e", "ç", "ã", "o">>,
       type |-> "SECAO", level |-> 2]>>

\* re.match(pattern, line): the keyword, whitespace, then a numeral
PatternMatches(line, pat) ==
    LET n == Len(pat.keyword)
        ws == RunEnd(line, n + 1, Whitespace)
    IN  /\ Len(line) >= n
        /\ LowerStr(SubSeq(line, 1, n)) = pat.keyword
        /\ ws >= n + 1
        /\ ws + 1 <= Len(line)
        /\ line[ws + 1] \in RomanChars \cup DigitChars

\* where match.group(1) ends: the greedy run of the numeral
Group1End(line, pat) ==
    LET ws == RunEnd(line, Len(pat.keyword) + 1, Whitespace)
    IN  IF line[ws + 1] \in RomanChars
        THEN RunEnd(line, ws + 1, RomanChars)
        ELSE RunEnd(line, ws + 1, DigitChars)

\* title = group(1), plus " " + group(2).strip() when group(2) is not empty
MatchTitle(line, pat) ==
    LET g1 == Group1End(line, pat)
        sep == RunEnd(line, g1 + 1, SeparatorChars)
        group2 == SubSeq(line, sep + 1, Len(line))
    IN  Strip(IF group2 # <<>>
              THEN SubSeq(line, 1, g1) \o <<" ">> \o Strip(group2)
              ELSE SubSeq(line, 1, g1))

\* the patterns that match the line; the first one in table order wins
MatchingPatterns(line) ==
    {k \in 1..Len(patterns) : PatternMatches(line, patterns[k])}
FirstMatch(line) == patterns[SetMin(MatchingPatterns(line))]

\* start_pos = sum(len(lines[j]) + 1 for j in range(i)), for the n-th line
RECURSIVE LineStart(_, _)
LineStart(lines, n) ==
    IF n <= 1 THEN 0
    ELSE LineStart(lines, n - 1) + Len(lines[n - 1]) + 1

\* abs(ch['start_position'] - start_pos) < 50
CloseToWide(a, b) == Abs(a - b) <= DedupDistance + 1
CloseTo(a, b) == Abs(a - b) < DedupDistance
\* any(... for ch in chapters)
NearRecorded(chs, sp) ==
    \E k \in 1..Len(chs) : CloseTo(chs[k].start_position, sp)

\* the chapter dict of a matching line
FallbackChapter(line, sp) ==
    [title |-> MatchTitle(line, FirstMatch(line)),
     type |-> FirstMatch(line).type,
     level |-> FirstMatch(line).level,
     start_position |-> sp,
     has_type |-> TRUE]

\* the line scan from line n on, acc being the chapters recorded so far
RECURSIVE FallbackFrom(_, _, _)
FallbackFrom(lines, n, acc) ==
    IF n > Len(lines) THEN acc
    ELSE LET line == Strip(lines[n])
             sp == LineStart(lines, n)
         IN  IF line = <<>> \/ MatchingPatterns(line) = {} \/ NearRecorded(acc, sp)
             THEN FallbackFrom(lines, n + 1, acc)
             ELSE FallbackFrom(lines, n + 1, Append(acc, FallbackChapter(line, sp)))

fallback_chapter_detection(txt) ==
    SortByStart(FallbackFrom(SplitLines(txt), 1, <<>>))

\* ------------------------------------------------------------------------
\* LegalDocumentChapterDetector._validate_and_adjust_chapters
\* ------------------------------------------------------------------------
\* the characters re.sub(r'[^\w\s]', '', s) removes (those of the model)
PunctChars == {".", ";", ":", "-"}
NotSpace(c) == c # " "
NotPunct(c) == c \notin PunctChars

\* title_lower.split()[0], or '' when there is no word
FirstWord(s) ==
    LET idx == {k \in 1..Len(s) : s[k] \notin Whitespace}
    IN  IF idx = {} THEN <<>>
        ELSE SubSeq(s, SetMin(idx), RunEnd(s, SetMin(idx), {s[k] : k \in idx}))

\* search_variations
SearchVariations(title) ==
    <<LowerStr(title),
      SelectSeq(LowerStr(title), NotSpace),
      SelectSeq(LowerStr(title), NotPunct),
      FirstWord(LowerStr(title))>>

\* found_position: the first variation longer than 3 characters that occurs
\* in the lower-cased text gives the position; -1 stands for None
FoundPosition(text_lower, title) ==
    LET vs == SearchVariations(title)
        usable == {k \in 1..Len(vs) :
                      Len(vs[k]) > MinVariationLen /\ Find(text_lower, vs[k]) # -1}
    IN  IF usable = {} THEN -1 ELSE Find(text_lower, vs[SetMin(usable)])

\* chapter['start_position'] = found_position: the position of the search
\* replaces the one the response carries
AdjustedStartReported(ch, pos) == ch.start_position
AdjustedStart(ch, pos) == pos

\* the for loop over the chapters of the response from chapter k on
RECURSIVE ValidateFrom(_, _, _, _)
ValidateFrom(chs, k, txt, acc) ==
    IF k > Len(chs) THEN acc
    ELSE LET title == Strip(chs[k].title)
             pos == FoundPosition(LowerStr(txt), title)
         IN  IF title = <<>> \/ pos = -1
             THEN ValidateFrom(chs, k + 1, txt, acc)
             ELSE ValidateFrom(chs, k + 1, txt,
                     Append(acc, [title |-> chs[k].title,
                                  type |-> chs[k].type,
                                  level |-> chs[k].level,
                                  start_position |-> AdjustedStart(chs[k], pos),
                                  has_type |-> chs[k].has_type]))

validate_and_adjust_chapters(chs, txt) ==
    SortByStart(ValidateFrom(chs, 1, txt, <<>>))

\* ------------------------------------------------------------------------
\* LegalDocumentChapterDetector.detect_chapters: the response of the model
\* ------------------------------------------------------------------------
\* response.text.strip() as a sequence of tokens: a code fence (<fence>,
\* three backquotes, alone or followed by json), prose, a
\* broken JSON text, or a JSON value
NoValue == [json |-> "none", chapters |-> <<>>]
FenceJson == [tok |-> "fence_json", value |-> NoValue]
Fence == [tok |-> "fence", value |-> NoValue]
Prose == [tok |-> "prose", value |-> NoValue]
Malformed == [tok |-> "malformed", value |-> NoValue]
\* a JSON object with a chapters array, one whose "chapters" is null, and a
\* JSON array
JsonObject(chs) == [tok |-> "value", value |-> [json |-> "object", chapters |-> chs]]
JsonNullChapters == [tok |-> "value", value |-> [json |-> "null_chapters", chapters |-> <<>>]]
JsonArray == [tok |-> "value", value |-> [json |-> "array", chapters |-> <<>>]]

\* generate_content raises, or returns a response with this text
Raises == [raises |-> TRUE, tokens |-> <<>>]
Answers(toks) == [raises |-> FALSE, tokens |-> toks]
NoResponse == Answers(<<>>)

\* if response_text.startswith(<fence>json): response_text = response_text[7:]
AfterJsonFence(toks) ==
    IF toks # <<>> /\ toks[1] = FenceJson THEN Tail(toks) ELSE toks
\* if response_text.startswith(<fence>): response_text = response_text[3:]
AfterFence(toks) ==
    IF toks # <<>> /\ toks[1] = Fence THEN Tail(toks)
    ELSE IF toks # <<>> /\ toks[1] = FenceJson THEN <<Prose>> \o Tail(toks)
    ELSE toks
\* if response_text.endswith(<fence>): response_text = response_text[:-3]
BeforeFence(toks) ==
    IF toks # <<>> /\ toks[Len(toks)] = Fence
    THEN SubSeq(toks, 1, Len(toks) - 1) ELSE toks
StripFences(toks) == BeforeFence(AfterFence(AfterJsonFence(toks)))

\* json.loads(response_text): one JSON value and nothing else, or
\* JSONDecodeError
JsonLoads(toks) ==
    IF Len(toks) = 1 /\ toks[1].tok = "value"
    THEN [ok |-> TRUE, value |-> toks[1].value]
    ELSE [ok |-> FALSE, value |-> NoValue]

\* the exception the AI path ends with ("none": it returns)
AIException(resp) ==
    IF resp.raises THEN "Exception"
    ELSE LET parsed == JsonLoads(StripFences(resp.tokens))
         IN  IF ~parsed.ok THEN "JSONDecodeError"
             ELSE IF parsed.value.json = "array" THEN "AttributeError"
             ELSE IF parsed.value.json = "null_chapters" THEN "TypeError"
             ELSE "none"

\* chapters = result.get('chapters', []) of a response that parses
ResponseChapters(resp) == JsonLoads(StripFences(resp.tokens)).value.chapters

\* except json.JSONDecodeError / except Exception: both clauses call the
\* fallback, so every exception of the AI path is caught
CaughtOnlyDecodeError(exc) == exc = "JSONDecodeError"
Caught(exc) == exc \in {"JSONDecodeError", "AttributeError", "TypeError", "Exception"}

\* detect_chapters is not running (its state while the other specifications
\* run)
DetOff ==
    /\ det_text = <<>>
    /\ response = NoResponse
    /\ ai_calls = 0
    /\ line_i = 1
    /\ det_chapters = <<>>
    /\ det_result = <<>>
    /\ det_path = "none"
    /\ det_exc = "none"
    /\ det_pc = "off"

\* characters a text is made of in SpecDoc: a letter, and the space, which
\* is both whitespace and a break character
DocAlphabet == {"a", " "}
DocTexts == UNION {[1..n -> DocAlphabet] : n \in 0..DocMaxLen}

\* a chapter dict with its start offset
ChapterAt(p) == [GoodChapter EXCEPT !.start_position = p]

\* the chapter lists of a text: at most MaxChapters chapters, sorted by start
\* offset, each starting inside the text
ChapterLists(txt) ==
    {chs \in UNION {[1..n -> {ChapterAt(p) : p \in 0..Len(txt)}] : n \in 0..MaxChapters} :
        \A k \in 1..(Len(chs) - 1) : chs[k].start_position <= chs[k + 1].start_position}

\* start_pos and end_pos of chapter k: its own start, and the start of the
\* next chapter or the end of the document
ChapterStartPos(chs, k) == chs[k].start_position
ChapterEndPosDocumentEnd(txt, chs, k) == Len(txt)
ChapterEndPos(txt, chs, k) ==
    IF k + 1 <= Len(chs) THEN chs[k + 1].start_position ELSE Len(txt)
\* chapter_text = text[start_pos:end_pos].strip()
ChapterText(txt, chs, k) ==
    Strip(PySlice(txt, ChapterStartPos(chs, k), ChapterEndPos(txt, chs, k)))

\* a call create_chapter_chunks(text, chapters) on a chunker built with
\* chunk_size > 0 and 0 <= overlap < chunk_size
DocInit ==
    /\ doc_text \in DocTexts
    /\ doc_chapters \in ChapterLists(doc_text)
    /\ doc_cs \in MinChunkSize..MaxChunkSize
    /\ doc_ov \in 0..MaxOverlap
    /\ doc_ov < doc_cs
    /\ doc_i = 1
    /\ all_chunks = <<>>
    /\ owners = <<>>
    /\ dpc = "entry"
    /\ ProcOff
    /\ ChunkOff
    /\ DetOff
    /\ HashOff

\* if not chapters: the whole text is cut as one chapter and returned
DocNoChapters ==
    /\ dpc = "entry"
    /\ doc_chapters = <<>>
    /\ LET r == CreateChunksForChapter(doc_text, WholeDocument, 0, Len(doc_text),
                                       doc_cs, doc_ov)
       IN  /\ r.status # "diverge"
           /\ IF r.status = "ok"
              THEN /\ all_chunks' = r.chunks
                   /\ owners' = [k \in 1..Len(r.chunks) |-> 0]
                   /\ dpc' = "returned"
              ELSE /\ dpc' = "raised"
                   /\ UNCHANGED <<all_chunks, owners>>
    /\ UNCHANGED <<doc_text, doc_chapters, doc_cs, doc_ov, doc_i>>
    /\ UNCHANGED <<procVars, chunkVars, detVars, hashVars>>

\* otherwise: enter the for loop over the chapters
DocEnterLoop ==
    /\ dpc = "entry"
    /\ doc_chapters # <<>>
    /\ dpc' = "loop"
    /\ UNCHANGED <<doc_text, doc_chapters, doc_cs, doc_ov, doc_i, all_chunks, owners>>
    /\ UNCHANGED <<procVars, chunkVars, detVars, hashVars>>

\* one iteration whose chapter text is empty after strip(): nothing is cut
DocChapterSkip ==
    /\ dpc = "loop"
    /\ doc_i <= Len(doc_chapters)
    /\ ChapterText(doc_text, doc_chapters, doc_i) = <<>>
    /\ doc_i' = doc_i + 1
    /\ UNCHANGED <<doc_text, doc_chapters, doc_cs, doc_ov, all_chunks, owners, dpc>>
    /\ UNCHANGED <<procVars, chunkVars, detVars, hashVars>>

\* one iteration with a chapter text: its chunks are appended, or the
\* exception of _create_chunks_for_chapter leaves create_chapter_chunks
DocChapterChunks ==
    /\ dpc = "loop"
    /\ doc_i <= Len(doc_chapters)
    /\ ChapterText(doc_text, doc_chapters, doc_i) # <<>>
    /\ LET r == CreateChunksForChapter(ChapterText(doc_text, doc_chapters, doc_i),
                                       doc_chapters[doc_i],
                                       ChapterStartPos(doc_chapters, doc_i),
                                       ChapterEndPos(doc_text, doc_chapters, doc_i),
                                       doc_cs, doc_ov)
       IN  /\ r.status # "diverge"
           /\ IF r.status = "ok"
              THEN /\ all_chunks' = all_chunks \o r.chunks
                   /\ owners' = owners \o [k \in 1..Len(r.chunks) |-> doc_i]
                   /\ doc_i' = doc_i + 1
                   /\ dpc' = "loop"
              ELSE /\ dpc' = "raised"
                   /\ UNCHANGED <<all_chunks, owners, doc_i>>
    /\ UNCHANGED <<doc_text, doc_chapters, doc_cs, doc_ov>>
    /\ UNCHANGED <<procVars, chunkVars, detVars, hashVars>>

\* the for loop is over: return all_chunks
DocReturn ==
    /\ dpc = "loop"
    /\ doc_i > Len(doc_chapters)
    /\ dpc' = "returned"
    /\ UNCHANGED <<doc_text, doc_chapters, doc_cs, doc_ov, doc_i, all_chunks, owners>>
    /\ UNCHANGED <<procVars, chunkVars, detVars, hashVars>>

DocNext ==
    \/ DocNoChapters
    \/ DocEnterLoop
    \/ DocChapterSkip
    \/ DocChapterChunks
    \/ DocReturn

SpecDoc == DocInit /\ [][DocNext]_vars

\* ------------------------------------------------------------------------
\* LegalDocumentChapterDetector.detect_chapters, step by step
\* ------------------------------------------------------------------------
\* the lines a text of SpecDetect is made of: chapter and section headings,
\* prose, the empty line, and filler lines whose lengths put the heading
\* after them just below, at and just above the dedup distance from a
\* "CAPÍTULO I" heading two lines before
Capitulo == <<"C", "A", "P", "Í", "T", "U", "L", "O">>
LineCapI == Capitulo \o <<" ", "I">>
LineCapII == Capitulo \o <<" ", "I", "I">>
LineSecI == <<"S", "E", "Ç", "Ã", "O", " ", "I">>
LineIntro == <<"I", "n", "t", "r", "o", " ", "t", "e", "x", "t", " ", "h", "e", "r", "e", ".">>
LineMore == <<"M", "o", "r", "e", " ", "t", "e", "x", "t", ".">>
Filler(n) == [k \in 1..n |-> "x"]
FillerLens ==
    (DedupDistance - Len(LineCapI) - 3)..(DedupDistance - Len(LineCapI) - 1)
LineChoices ==
    {LineCapI, LineCapII, LineSecI, LineIntro, <<>>} \cup {Filler(n) : n \in FillerLens}

\* "CAPÍTULO I", "Intro text here.", "", "CAPÍTULO II", "More text."
ExampleText == JoinLines(<<LineCapI, LineIntro, <<>>, LineCapII, LineMore>>)

DetTexts ==
    {JoinLines(ls) : ls \in UNION {[1..n -> LineChoices] : n \in 0..MaxDetLines}}
        \cup {ExampleText}

\* the start_position the response reports for a chapter: an offset past the
\* end of every text of the model, so at which no title occurs
ReportedStart == 8000

\* the chapter dicts of a response: titles that occur in the text, one whose
\* first word only occurs, one that does not occur, one of two characters,
\* one of whitespace only
AIChapter(t) ==
    [title |-> t, type |-> "CAPITULO", level |-> 1,
     start_position |-> ReportedStart, has_type |-> TRUE]
TitleCapV == Capitulo \o <<" ", "V">>
TitleAnexo == <<"A", "n", "e", "x", "o">>
TitleII == <<"I", "I">>
TitleBlank == <<" ">>
AIChapterLists ==
    {<<>>,
     <<AIChapter(LineCapI)>>,
     <<AIChapter(LineCapII), AIChapter(LineCapI)>>,
     <<AIChapter(LineCapI), AIChapter(TitleCapV)>>,
     <<AIChapter(TitleAnexo)>>,
     <<AIChapter(TitleII), AIChapter(LineCapI)>>,
     <<AIChapter(TitleBlank), AIChapter(LineCapII)>>}

JsonValues == {JsonObject(chs) : chs \in AIChapterLists} \cup {JsonNullChapters, JsonArray}

\* what generate_content can do: raise; answer nothing, a broken JSON text,
\* or a JSON value, bare, inside a json code fence, or inside prose
Responses ==
    {Raises, Answers(<<>>), Answers(<<Malformed>>)}
        \cup {Answers(<<v>>) : v \in JsonValues}
        \cup {Answers(<<FenceJson, v, Fence>>) : v \in JsonValues}
        \cup {Answers(<<Prose, v, Prose>>) : v \in JsonValues}

\* a call detect_chapters(text, document_name)
DetInit ==
    /\ det_text \in DetTexts
    /\ response \in Responses
    /\ ai_calls = 0
    /\ line_i = 1
    /\ det_chapters = <<>>
    /\ det_result = <<>>
    /\ det_path = "none"
    /\ det_exc = "none"
    /\ det_pc = "entry"
    /\ ProcOff
    /\ ChunkOff
    /\ DocOff
    /\ HashOff

\* the AI path ends with exception exc: the except clause that catches it
\* starts the fallback; an exception no clause catches leaves detect_chapters
AIPathFails(exc) ==
    /\ AIException(response) = exc
    /\ ai_calls' = ai_calls + 1
    /\ det_exc' = exc
    /\ det_pc' = IF Caught(exc) THEN "fallback" ELSE "raised"
    /\ UNCHANGED <<det_text, response, line_i, det_chapters, det_result, det_path>>
    /\ UNCHANGED <<procVars, chunkVars, docVars, hashVars>>

\* response = self.model.generate_content(prompt) raises
GenerateContentRaises ==
    /\ det_pc = "entry"
    /\ AIPathFails("Exception")

\* json.loads(response_text) raises JSONDecodeError
JsonDecodeFails ==
    /\ det_pc = "entry"
    /\ AIPathFails("JSONDecodeError")

\* the response parses but is no object with a chapters list: result.get or
\* the for loop of _validate_and_adjust_chapters raises
PayloadUnusable ==
    /\ det_pc = "entry"
    /\ AIException(response) \in {"AttributeError", "TypeError"}
    /\ AIPathFails(AIException(response))

\* the response parses: return self._validate_and_adjust_chapters(chapters, text)
ValidateAndReturn ==
    /\ det_pc = "entry"
    /\ AIException(response) = "none"
    /\ ai_calls' = ai_calls + 1
    /\ det_result' = validate_and_adjust_chapters(ResponseChapters(response), det_text)
    /\ det_path' = "ai"
    /\ det_pc' = "returned"
    /\ UNCHANGED <<det_text, response, line_i, det_chapters, det_exc>>
    /\ UNCHANGED <<procVars, chunkVars, docVars, hashVars>>

\* the line the fallback scan is at, stripped, and its start_pos
CurLine == Strip(SplitLines(det_text)[line_i])
CurStart == LineStart(SplitLines(det_text), line_i)
ScanningLine ==
    /\ det_pc = "fallback"
    /\ line_i <= Len(SplitLines(det_text))

\* a line that is empty after strip() or matches no pattern
FallbackSkipLine ==
    /\ ScanningLine
    /\ CurLine = <<>> \/ MatchingPatterns(CurLine) = {}
    /\ line_i' = line_i + 1
    /\ UNCHANGED <<det_text, response, ai_calls, det_chapters, det_result,
                   det_path, det_exc, det_pc>>
    /\ UNCHANGED <<procVars, chunkVars, docVars, hashVars>>

\* a matching line with no recorded chapter close to it: chapters.append
FallbackRecord ==
    /\ ScanningLine
    /\ CurLine # <<>>
    /\ MatchingPatterns(CurLine) # {}
    /\ ~NearRecorded(det_chapters, CurStart)
    /\ det_chapters' = Append(det_chapters, FallbackChapter(CurLine, CurStart))
    /\ line_i' = line_i + 1
    /\ UNCHANGED <<det_text, response, ai_calls, det_result, det_path, det_exc, det_pc>>
    /\ UNCHANGED <<procVars, chunkVars, docVars, hashVars>>

\* a matching line close to a recorded chapter: nothing is recorded
FallbackDiscard ==
    /\ ScanningLine
    /\ CurLine # <<>>
    /\ MatchingPatterns(CurLine) # {}
    /\ NearRecorded(det_chapters, CurStart)
    /\ line_i' = line_i + 1
    /\ UNCHANGED <<det_text, response, ai_calls, det_chapters, det_result,
                   det_path, det_exc, det_pc>>
    /\ UNCHANGED <<procVars, chunkVars, docVars, hashVars>>

\* the scan is over: sort and return
FallbackReturn ==
    /\ det_pc = "fallback"
    /\ line_i > Len(SplitLines(det_text))
    /\ det_result' = SortByStart(det_chapters)
    /\ det_path' = "fallback"
    /\ det_pc' = "returned"
    /\ UNCHANGED <<det_text, response, ai_calls, line_i, det_chapters, det_exc>>
    /\ UNCHANGED <<procVars, chunkVars, docVars, hashVars>>

DetNext ==
    \/ GenerateContentRaises
    \/ JsonDecodeFails
    \/ PayloadUnusable
    \/ ValidateAndReturn
    \/ FallbackSkipLine
    \/ FallbackRecord
    \/ FallbackDiscard
    \/ FallbackReturn

SpecDetect == DetInit /\ [][DetNext]_vars

\* a call _create_chunks_for_chapter(chapter_text, ...) on a chunker built
\* with chunk_size > 0 and 0 <= overlap < chunk_size
ChunkInit ==
    /\ \/ /\ chapter_text \in Texts
          /\ chunk_size \in MinChunkSize..MaxChunkSize
          /\ overlap \in 0..MaxOverlap
       \/ /\ chapter_text \in WideTexts
          /\ chunk_size \in WideChunkSize..(WideChunkSize + 1)
          /\ overlap \in 0..(chunk_size - 1)
    /\ overlap < chunk_size
    /\ start = 0
    /\ chunk_index = 0
    /\ chunks = <<>>
    /\ cpc = "entry"
    /\ ProcOff
    /\ DocOff
    /\ DetOff
    /\ HashOff

\* if len(chapter_text) <= self.chunk_size: one chunk, return
ChunkWhole ==
    /\ cpc = "entry"
    /\ Len(chapter_text) <= chunk_size
    /\ chunks' = <<WholeChapterChunk(chapter_text, 0, Len(chapter_text))>>
    /\ cpc' = "returned"
    /\ UNCHANGED <<chapter_text, chunk_size, overlap, start, chunk_index>>
    /\ UNCHANGED <<procVars, docVars, detVars, hashVars>>

\* otherwise: start = 0, chunk_index = 0 and enter the while loop
ChunkEnterLoop ==
    /\ cpc = "entry"
    /\ Len(chapter_text) > chunk_size
    /\ cpc' = "loop"
    /\ UNCHANGED <<chapter_text, chunk_size, overlap, start, chunk_index, chunks>>
    /\ UNCHANGED <<procVars, docVars, detVars, hashVars>>

\* one iteration of the while loop in which max() raises ValueError
ChunkLoopRaise ==
    /\ cpc = "loop"
    /\ start < Len(chapter_text)
    /\ MaxRaises(chapter_text, start, chunk_size)
    /\ cpc' = "raised"
    /\ UNCHANGED <<chapter_text, chunk_size, overlap, start, chunk_index, chunks>>
    /\ UNCHANGED <<procVars, docVars, detVars, hashVars>>

\* one iteration of the while loop that appends a chunk; the loop ends by the
\* break on a too small rest or by the while condition (start past the end,
\* which the break always anticipates: then the rest is <= 0)
ChunkLoopStep ==
    /\ cpc = "loop"
    /\ chunk_index < MaxIterations
    /\ start < Len(chapter_text)
    /\ ~MaxRaises(chapter_text, start, chunk_size)
    /\ LET e == SnappedEnd(chapter_text, start, chunk_size)
       IN  /\ chunks' = Append(chunks,
                  LoopChunk(chapter_text, start, e, chunk_index, overlap, 0))
           /\ start' = e - overlap
           /\ chunk_index' = chunk_index + 1
           /\ cpc' = IF \/ TooSmallRest(Len(chapter_text) - (e - overlap), chunk_size)
                        \/ e - overlap >= Len(chapter_text)
                     THEN "returned" ELSE "loop"
    /\ UNCHANGED <<chapter_text, chunk_size, overlap>>
    /\ UNCHANGED <<procVars, docVars, detVars, hashVars>>

ChunkNext ==
    \/ ChunkWhole
    \/ ChunkEnterLoop
    \/ ChunkLoopRaise
    \/ ChunkLoopStep

SpecChunk == ChunkInit /\ [][ChunkNext]_vars

\* ------------------------------------------------------------------------
\* SpecHash: _calculate_file_hash called once for each path
\* ------------------------------------------------------------------------
HashInit ==
    /\ hash_files \in [HashPaths -> FileStates]
    /\ hash_result = [p \in HashPaths |-> NotHashed]
    /\ ProcOff
    /\ ChunkOff
    /\ DocOff
    /\ DetOff

HashCall(p) ==
    /\ hash_result[p] = NotHashed
    /\ hash_result' = [hash_result EXCEPT ![p] = calculate_file_hash(p, hash_files[p])]
    /\ UNCHANGED hash_files
    /\ UNCHANGED <<procVars, chunkVars, docVars, detVars>>

\* the try block returns hash_md5.hexdigest()
HashOfBytes ==
    \E p \in HashPaths : hash_files[p].read_ok /\ HashCall(p)

\* open or read raised; the except clause returns the fallback digest
HashOfFallback ==
    \E p \in HashPaths :
        ~hash_files[p].read_ok /\ hash_files[p].stat_ok /\ HashCall(p)

\* open or read raised, and file_path.stat() raises inside the except clause
HashStatRaises ==
    \E p \in HashPaths :
        ~hash_files[p].read_ok /\ ~hash_files[p].stat_ok /\ HashCall(p)

HashNext ==
    \/ HashOfBytes
    \/ HashOfFallback
    \/ HashStatRaises

SpecHash == HashInit /\ [][HashNext]_vars

Init == ProcInit /\ ChunkOff /\ DocOff /\ DetOff /\ HashOff

Spec == Init /\ [][Next]_vars

\* ------------------------------------------------------------------------
\* C10
\* ------------------------------------------------------------------------
\* the current window is one the claim is about: it does not end at the
\* chapter end and holds no break character past the threshold
NoBreakWindow ==
    /\ cpc = "loop"
    /\ start < Len(chapter_text)
    /\ RawEnd(chapter_text, start, chunk_size) < Len(chapter_text)
    /\ Candidates(PySlice(chapter_text, start,
                          RawEnd(chapter_text, start, chunk_size)), chunk_size) = {}

\* C10: when a window of a chapter longer than the chunk size holds none of
\* the five break characters at or past the threshold, the segmentation does
\* not raise: it closes the chunk at start + chunk_size and continues.
C10_NoBreakClosesAtRawBoundary ==
    [][NoBreakWindow =>
          /\ cpc' # "raised"
          /\ Len(chunks') = Len(chunks) + 1
          /\ chunks'[Len(chunks')].end_position = start + chunk_size]_vars

\* the segmentation has raised on a window without a break candidate
C10_RaisedOnNoBreakWindow ==
    /\ cpc = "raised"
    /\ Len(chapter_text) > chunk_size
    /\ MaxRaises(chapter_text, start, chunk_size)

\* ------------------------------------------------------------------------
\* Claims about the pipeline (checked under Spec)
\* ------------------------------------------------------------------------
Handled(p) == outcome[p] # "none"
CounterSum ==
    stats.unchanged_files + stats.new_files + stats.updated_files + stats.failed_files

\* C1: check_file_status, when its SELECT returns: no row for the path gives
\* exists = false and needs_update = true; a row gives exists = true, and
\* needs_update is true exactly when the stored hash differs from the current
\* one or the two modification timestamps are more than 1 second apart.
C1_CheckFileStatusDecision ==
    (pc = "checked" /\ status_query = "ok") =>
        LET row == tx.documents[i]
            info == files[i]
            apart == IF row.modification_timestamp >= info.modification_timestamp
                     THEN row.modification_timestamp - info.modification_timestamp
                     ELSE info.modification_timestamp - row.modification_timestamp
        IN  /\ ~row.present => (~file_status.exists /\ file_status.needs_update)
            /\ row.present =>
                  /\ file_status.exists
                  /\ file_status.needs_update <=>
                        (row.file_hash # info.file_hash \/ apart > 1)

\* a stored row with the current hash and a timestamp exactly 1 second off
\* was looked up, and needs no update
C1_WitnessOneSecondApart ==
    /\ pc = "checked"
    /\ status_query = "ok"
    /\ tx.documents[i].present
    /\ tx.documents[i].file_hash = files[i].file_hash
    /\ tx.documents[i].modification_timestamp # files[i].modification_timestamp
    /\ file_status.exists
    /\ ~file_status.needs_update

\* the file is the same at this run as at the previous one, where it ended
\* new or updated
SameAsProcessedBefore(p) ==
    /\ run >= 2
    /\ prev[p].outcome \in {"new", "updated"}
    /\ files[p] = prev[p].info

\* C2: a file that ended new or updated in the previous run and has the same
\* bytes and modification time at this run gets no chunk row deleted or
\* inserted by this run, and is counted as unchanged once its status lookup
\* has returned.
C2_SecondRunUnchanged ==
    \A p \in Paths :
        (SameAsProcessedBefore(p) /\ Handled(p)) =>
            /\ db.document_chunks[p] = dbAtRun.document_chunks[p]
            /\ tx.document_chunks[p] = dbAtRun.document_chunks[p]
            /\ (failures[p] \cap {"status_check", "lookup"} = {})
                  => outcome[p] = "unchanged"

\* a file processed in run 1 was skipped as unchanged in run 2
C2_WitnessSkippedInSecondRun ==
    \E p \in Paths :
        /\ SameAsProcessedBefore(p)
        /\ outcome[p] = "unchanged"
        /\ db.document_chunks[p] # <<>>
        /\ stats.unchanged_files >= 1

\* C3: for every file whose outcome in a run is failed, the stored document
\* row of its path is the same after the run as before it.
C3_FailedLeavesStoredStateAlone ==
    \A p \in Paths :
        outcome[p] = "failed" => db.documents[p] = dbAtRun.documents[p]

\* without any fault: a new file whose chunking raised ended failed, and its
\* row now holds the file's hash and timestamp
C3_WitnessFailedButStored ==
    \E p \in Paths :
        /\ faults = 0
        /\ outcome[p] = "failed"
        /\ failures[p] = {"chunking"}
        /\ ~dbAtRun.documents[p].present
        /\ db.documents[p].present
        /\ db.documents[p].file_hash = files[p].file_hash

\* C4: a file for which a row exists and needs_update is false is counted as
\* unchanged with no extraction, detection, chunking or write to any table;
\* and text extraction for a file only ever follows its status check.
C4_UnchangedHasNoSideEffects ==
    [][/\ (pc = "checked" /\ file_status.exists /\ ~file_status.needs_update) =>
             /\ outcome'[i] = "unchanged"
             /\ ops' = <<"check">>
             /\ db' = db
             /\ tx' = tx
       /\ (ops' # ops /\ Len(ops') > 0 /\ ops'[Len(ops')] = "extract") =>
             (ops = <<"check">> /\ pc = "checked")]_vars

\* a file was skipped as unchanged: only its status was checked and the
\* database is as it was when the file was started
C4_WitnessSkipped ==
    /\ i > 1
    /\ pc \in {"check", "finish"}
    /\ outcome[i - 1] = "unchanged"
    /\ ops = <<"check">>
    /\ db = dbAtFile

\* C5: after k files of the list have been handled the four outcome counters
\* sum to k, and when the file loop has finished they sum to total_files.
C5_CountersSumToHandled ==
    /\ CounterSum = i - 1
    /\ CounterSum = Cardinality({p \in Paths : Handled(p)})
    /\ (run > 0 /\ pc \in {"finish", "idle"}) => CounterSum = stats.total_files

\* a run finished in which a file failed on an escaped exception and another
\* file succeeded
C5_WitnessMixedRun ==
    /\ pc = "finish"
    /\ stats.errors >= 1
    /\ stats.failed_files >= 1
    /\ stats.new_files + stats.updated_files + stats.unchanged_files >= 1
    /\ CounterSum = stats.total_files

\* C6: a failure while handling a file (empty extraction, an exception in
\* chunking, a persistence error, an exception out of the status check)
\* never aborts the run: the file is counted as failed, and the later files
\* are still handled, in list order.
C6_FailureIsCountedAndRunContinues ==
    /\ \A p \in Paths :
          (Handled(p) /\ failures[p] \cap {"extraction", "chunking", "document",
                                          "chapters", "chunks", "status_check"} # {})
              => outcome[p] = "failed"
    /\ \A p \in Paths : Handled(p) <=> p < i
    /\ pc = "finish" => \A p \in Paths : Handled(p)

\* the first file met a failure and the file after it was handled
C6_WitnessLaterFileHandled ==
    /\ NumFiles >= 2
    /\ failures[1] # {}
    /\ outcome[1] = "failed"
    /\ Handled(2)

\* C7: after a document is processed successfully (it ends new or updated
\* and no call failed), its chapter rows and its chunk rows are exactly those
\* of this run: no row of an earlier run remains, also when the new chapter
\* list is empty.
C7_ChildRowsReplaced ==
    \A p \in Paths :
        (outcome[p] \in {"new", "updated"} /\ failures[p] = {}) =>
            /\ \A k \in 1..Len(db.document_chapters[p]) :
                  db.document_chapters[p][k].run = run
            /\ Len(db.document_chapters[p]) = db.documents[p].chapters_count
            /\ \A k \in 1..Len(db.document_chunks[p]) :
                  db.document_chunks[p][k].run = run

\* without any fault: a document reprocessed with an empty chapter list
\* keeps the chapter rows of the earlier run
C7_WitnessStaleChapters ==
    \E p \in Paths :
        /\ faults = 0
        /\ outcome[p] = "updated"
        /\ db.documents[p].chapters_count = 0
        /\ db.document_chapters[p] # <<>>
        /\ db.document_chapters[p][1].run < run

\* C8: in every committed state the chapter rows (chunk rows) of a document
\* are the set stored before the replace call or the new set passed to it:
\* the rows change only by a commit that holds all the new rows.
C8_ReplaceIsAtomic ==
    [][\A p \in Paths :
          /\ db'.document_chapters[p] # db.document_chapters[p] =>
                /\ pc = "chapters"
                /\ document_id = p
                /\ db'.document_chapters[p] = ChapterRows(run, chapters)
          /\ db'.document_chunks[p] # db.document_chunks[p] =>
                /\ pc = "chunks"
                /\ document_id = p
                /\ Len(db'.document_chunks[p]) > 0
                /\ \A k \in 1..Len(db'.document_chunks[p]) :
                      db'.document_chunks[p][k].run = run]_vars

\* without any fault: the chapter rows of a document were deleted and
\* committed, with no new row, by a file that ended failed
C8_WitnessCommittedDelete ==
    \E p \in Paths :
        /\ faults = 0
        /\ outcome[p] = "failed"
        /\ failures[p] = {"chapters"}
        /\ dbAtRun.document_chapters[p] # <<>>
        /\ db.document_chapters[p] = <<>>

\* C9: when persistence of the document row, the chapter rows or the chunk
\* rows fails for a file, the file is counted in failed_files and not in
\* new_files or updated_files.
C9_PersistenceFailureIsFailed ==
    \A p \in Paths :
        (Handled(p) /\ failures[p] \cap {"document", "chapters", "chunks"} # {})
            => outcome[p] = "failed"

\* insert_chapters returned False for a file that was then counted as new
C9_WitnessChapterFailureCountedNew ==
    \E p \in Paths :
        /\ failures[p] = {"chapters"}
        /\ outcome[p] = "new"
        /\ stats.new_files >= 1
        /\ db.document_chapters[p] = <<>>
        /\ db.documents[p].chapters_count > 0

\* ------------------------------------------------------------------------
\* C11
\* ------------------------------------------------------------------------
\* the segmentation loop returned for a trimmed chapter text longer than the
\* chunk size
LoopReturnedOnTrimmedText ==
    /\ cpc = "returned"
    /\ Len(chapter_text) > chunk_size
    /\ chapter_text = Strip(chapter_text)

\* C11: when the segmentation loop of a chapter returns, nothing of the
\* chapter's trimmed text is lost to the early stop: the last chunk ends at
\* the length of the chapter text, and every character position lies in
\* [start_position, end_position) of some chunk.
C11_RemainderInLastChunk ==
    LoopReturnedOnTrimmedText =>
        /\ chunks[Len(chunks)].end_position = Len(chapter_text)
        /\ \A k \in 0..(Len(chapter_text) - 1) :
              \E c \in 1..Len(chunks) :
                  /\ chunks[c].start_position <= k
                  /\ k < chunks[c].end_position

\* the loop stopped on a too small rest and the characters after the last
\* chunk's end, which are not whitespace, are in no chunk
C11_WitnessRemainderDropped ==
    /\ LoopReturnedOnTrimmedText
    /\ chunks[Len(chunks)].end_position < Len(chapter_text)
    /\ TooSmallRest(Len(chapter_text) - start, chunk_size)
    /\ chapter_text[Len(chapter_text)] \notin Whitespace

\* ------------------------------------------------------------------------
\* Claims about create_chapter_chunks (checked under SpecDoc)
\* ------------------------------------------------------------------------
\* the span of the chapter chunk k was cut from: [lo, hi]
SpanLo(k) == IF owners[k] = 0 THEN 0 ELSE doc_chapters[owners[k]].start_position
SpanHi(k) ==
    IF owners[k] = 0 \/ owners[k] = Len(doc_chapters) THEN Len(doc_text)
    ELSE doc_chapters[owners[k] + 1].start_position

\* C17: every chunk cut from a chapter list sorted by start offset has its
\* absolute offsets inside its own chapter's span: chapter start <=
\* absolute_start_position <= absolute_end_position <= start of the next
\* chapter (the document length for the last chapter).
C17_ChunksStayInsideTheirChapter ==
    \A k \in 1..Len(all_chunks) :
        /\ SpanLo(k) <= all_chunks[k].absolute_start_position
        /\ all_chunks[k].absolute_start_position <= all_chunks[k].absolute_end_position
        /\ all_chunks[k].absolute_end_position <= SpanHi(k)

\* a document of two chapters was cut: the first chapter gave several
\* chunks, the second one its own chunk
C17_WitnessTwoChaptersCut ==
    /\ dpc = "returned"
    /\ Len(doc_chapters) = 2
    /\ \E k \in 1..Len(all_chunks) :
          /\ owners[k] = 1
          /\ ~all_chunks[k].is_chapter_complete
          /\ all_chunks[k].absolute_start_position > SpanLo(k)
    /\ \E k \in 1..Len(all_chunks) :
          /\ owners[k] = 2
          /\ all_chunks[k].absolute_start_position > 0

\* C18: create_chapter_chunks called with empty text returns an empty list,
\* for every chapter list, the empty one included.
C18_EmptyTextGivesNoChunk ==
    (dpc = "returned" /\ doc_text = <<>>) => all_chunks = <<>>

\* the call with empty text and no chapters returned one chunk whose content
\* is empty
C18_WitnessOneEmptyChunk ==
    /\ dpc = "returned"
    /\ doc_text = <<>>
    /\ doc_chapters = <<>>
    /\ Len(all_chunks) = 1
    /\ all_chunks[1].content = <<>>
    /\ all_chunks[1].is_chapter_complete

\* C19: the list create_chapter_chunks returns carries the chunk_index
\* values 0, 1, ..., n-1 in order, also for a document of several chapters.
C19_ChunkIndexCountsWithinDocument ==
    dpc = "returned" =>
        \A k \in 1..Len(all_chunks) : all_chunks[k].chunk_index = k - 1

\* the chunks of two different chapters of one document carry index 0
C19_WitnessIndexRepeated ==
    /\ dpc = "returned"
    /\ \E j, k \in 1..Len(all_chunks) :
          /\ owners[j] # owners[k]
          /\ all_chunks[j].chunk_index = 0
          /\ all_chunks[k].chunk_index = 0

\* C20: every chunk create_chapter_chunks returns has content without
\* leading or trailing whitespace, on the single-chunk path, the multi-chunk
\* path and the no-chapters path.
C20_ContentIsTrimmed ==
    dpc = "returned" =>
        \A k \in 1..Len(all_chunks) :
            all_chunks[k].content = Strip(all_chunks[k].content)

\* the no-chapters path returned a chunk whose content starts or ends with
\* whitespace
C20_WitnessUntrimmedWholeDocument ==
    /\ dpc = "returned"
    /\ doc_chapters = <<>>
    /\ Len(all_chunks) = 1
    /\ all_chunks[1].content # <<>>
    /\ \/ all_chunks[1].content[1] \in Whitespace
       \/ all_chunks[1].content[Len(all_chunks[1].content)] \in Whitespace

\* ------------------------------------------------------------------------
\* Claims about detect_chapters (checked under SpecDetect)
\* ------------------------------------------------------------------------
\* the fallback returned for the five-line example text
ExampleReturned ==
    /\ det_pc = "returned"
    /\ det_path = "fallback"
    /\ det_text = ExampleText

\* what create_chapter_chunks makes of the example and the returned list,
\* with a chunk size no chapter text exceeds
ExampleChunks == create_chapter_chunks(det_text, det_result, Len(ExampleText), 0)

\* C12: for the text "CAPÍTULO I", "Intro text here.", "", "CAPÍTULO II",
\* "More text." the rule-based fallback returns exactly two divisions of type
\* CAPITULO, at offsets 0 and 29, and create_chapter_chunks with a chunk size
\* larger than either chapter returns exactly two chunks, each with
\* is_chapter_complete = true.
C12_ExampleTwoChaptersTwoChunks ==
    ExampleReturned =>
        /\ Len(det_result) = 2
        /\ \A k \in 1..2 : det_result[k].type = "CAPITULO"
        /\ det_result[1].start_position = 0
        /\ det_result[2].start_position = 29
        /\ ExampleChunks.status = "ok"
        /\ Len(ExampleChunks.chunks) = 2
        /\ \A k \in 1..2 : ExampleChunks.chunks[k].is_chapter_complete

\* the fallback returned one division for the example, the heading of the
\* fourth line (offset 29) having been discarded, and the document is cut
\* into one chunk
C12_WitnessSecondHeadingDiscarded ==
    /\ ExampleReturned
    /\ LineStart(SplitLines(det_text), 4) = 29
    /\ MatchingPatterns(Strip(SplitLines(det_text)[4])) # {}
    /\ Len(det_result) = 1
    /\ det_result[1].start_position = 0
    /\ Len(ExampleChunks.chunks) = 1

\* the fallback scan is at a line that matches a pattern
ScanningMatchingLine ==
    /\ ScanningLine
    /\ CurLine # <<>>
    /\ MatchingPatterns(CurLine) # {}

\* how far before the current line each recorded division starts
DistancesBefore ==
    {CurStart - det_chapters[k].start_position : k \in 1..Len(det_chapters)}

\* C13: in the fallback scan a matching line is discarded when a recorded
\* division starts 49 or fewer characters before it, and is recorded when
\* the nearest recorded division starts 51 or more characters before it.
C13_DedupByDistance ==
    [][ScanningMatchingLine =>
          /\ (\E d \in DistancesBefore : 0 <= d /\ d <= DedupDistance - 1)
                => det_chapters' = det_chapters
          /\ (DistancesBefore # {} /\ \A d \in DistancesBefore : d >= DedupDistance + 1)
                => /\ Len(det_chapters') = Len(det_chapters) + 1
                   /\ det_chapters'[Len(det_chapters')].start_position = CurStart
                   /\ SubSeq(det_chapters', 1, Len(det_chapters)) = det_chapters]_vars

\* a heading that starts 49 characters after the recorded one was scanned
\* and discarded: only the first of the two is in the result
C13_WitnessDiscardedAt49 ==
    /\ det_pc = "returned"
    /\ det_path = "fallback"
    /\ \E n \in 1..Len(SplitLines(det_text)) :
          /\ MatchingPatterns(Strip(SplitLines(det_text)[n])) # {}
          /\ LineStart(SplitLines(det_text), n) = DedupDistance - 1
    /\ Len(det_result) = 1
    /\ det_result[1].start_position = 0

\* C14: every list detect_chapters returns, from the AI path or from the
\* fallback, has its start offsets in ascending order and no two entries
\* with start offsets within 50 characters of each other.
C14_ResultOrderedAndSpaced ==
    det_pc = "returned" =>
        \A j, k \in 1..Len(det_result) :
            j < k =>
                /\ det_result[j].start_position <= det_result[k].start_position
                /\ det_result[k].start_position - det_result[j].start_position
                      >= DedupDistance

\* the AI path returned two divisions less than 50 characters apart
C14_WitnessAIPathCloseEntries ==
    /\ det_pc = "returned"
    /\ det_path = "ai"
    /\ Len(det_result) = 2
    /\ det_result[2].start_position - det_result[1].start_position < DedupDistance

\* the response is malformed JSON, is JSON wrapped in prose, or is a JSON
\* object whose chapters array is empty (bare or in a code fence)
MalformedResponse ==
    ~response.raises /\ \E k \in 1..Len(response.tokens) : response.tokens[k] = Malformed
WrappedResponse ==
    ~response.raises /\ \E k \in 1..Len(response.tokens) : response.tokens[k] = Prose
EmptyChaptersResponse ==
    response \in {Answers(<<JsonObject(<<>>)>>),
                  Answers(<<FenceJson, JsonObject(<<>>), Fence>>)}

\* C15: when the response is malformed JSON, JSON wrapped in non-JSON text,
\* or a JSON object with an empty chapters array, detect_chapters does not
\* raise and returns the result of the fallback on the same text, not the AI
\* path's own result.
C15_UnusableResponseFallsBack ==
    ((MalformedResponse \/ WrappedResponse \/ EmptyChaptersResponse)
        /\ det_pc \in {"returned", "raised"}) =>
            /\ det_pc = "returned"
            /\ det_path = "fallback"
            /\ det_result = fallback_chapter_detection(det_text)

\* for a response with an empty chapters array the AI path returned its own
\* empty list, on a text in which the fallback finds a division
C15_WitnessEmptyArrayReturned ==
    /\ det_pc = "returned"
    /\ EmptyChaptersResponse
    /\ det_path = "ai"
    /\ det_result = <<>>
    /\ fallback_chapter_detection(det_text) # <<>>

C21_ConnectFailureReturnsStats ==
    [][/\ (pc = "idle" /\ pc' = "aborted") =>
             /\ stats'.errors = 1
             /\ CounterSum' = 0
             /\ \A p \in Paths : ~Handled(p)'
             /\ db' = db
       /\ pc = "aborted" =>
             /\ pc' = "idle"
             /\ stats'.processing_time = "measured"
             /\ stats'.errors = stats.errors
             /\ CounterSum' = 0
             /\ \A p \in Paths : ~Handled(p)'
             /\ db' = db]_vars

\* a run whose connect raised has returned its statistics
C21_WitnessReturnedAfterConnectFailure ==
    /\ pc = "idle"
    /\ run > 0
    /\ ~alive
    /\ \A p \in Paths : ~Handled(p)
    /\ stats.total_files = 0
    /\ stats.errors = 1
    /\ stats.processing_time = "measured"

\* ------------------------------------------------------------------------
\* C22 (checked under SpecHash)
\* ------------------------------------------------------------------------
\* C22: no exception leaves _calculate_file_hash: when reading the bytes
\* fails it returns the digest of absolute path, size and modification time,
\* when reading succeeds it returns the digest of the bytes alone, and two
\* files with identical bytes that were read get equal fingerprints.
C22_HashNeverRaises ==
    /\ \A p \in HashPaths :
          hash_result[p] # NotHashed =>
              /\ hash_result[p] # RaisedOSError
              /\ hash_files[p].read_ok =>
                    hash_result[p] = Md5(hash_files[p].content)
              /\ ~hash_files[p].read_ok =>
                    hash_result[p] = Md5(FallbackString(p, hash_files[p]))
    /\ \A p, q \in HashPaths :
          (/\ hash_result[p] # NotHashed /\ hash_result[q] # NotHashed
           /\ hash_files[p].read_ok /\ hash_files[q].read_ok
           /\ hash_files[p].content = hash_files[q].content)
              => hash_result[p] = hash_result[q]

\* the call for a path that can be neither read nor stat-ed ended in the
\* exception of file_path.stat(), while a readable file got its digest
C22_WitnessStatRaisedInHandler ==
    \E p, q \in HashPaths :
        /\ ~hash_files[p].read_ok
        /\ ~hash_files[p].stat_ok
        /\ hash_result[p] = RaisedOSError
        /\ hash_files[q].read_ok
        /\ hash_result[q] = Md5(hash_files[q].content)

\* ------------------------------------------------------------------------
\* C23 (checked under SpecChunk)
\* ------------------------------------------------------------------------
\* the tentative window of the iteration the loop is at
Window == PySlice(chapter_text, start, RawEnd(chapter_text, start, chunk_size))

\* the loop is at a window that does not end at the chapter end
AtInnerWindow ==
    /\ cpc = "loop"
    /\ chunk_index < MaxIterations
    /\ start < Len(chapter_text)
    /\ RawEnd(chapter_text, start, chunk_size) < Len(chapter_text)

\* the indices within the window, at or past 70% of the chunk size, that
\* hold one of the five break characters
BreaksAtOrPast ==
    {k \in 0..(Len(Window) - 1) :
        /\ \E b \in 1..Len(BreakChars) : Window[k + 1] = BreakChars[b]
        /\ 10 * k >= 7 * chunk_size}

\* C23: for every window that does not end at the chapter end and holds a
\* break character at or past 70% of the chunk size (an index of exactly
\* 0.7 * chunk_size included), the chunk is closed just after the rightmost
\* such occurrence.
C23_EndAfterRightmostBreakAtOrPast ==
    [][(AtInnerWindow /\ BreaksAtOrPast # {}) =>
          /\ Len(chunks') = Len(chunks) + 1
          /\ chunks'[Len(chunks')].end_position = start + SetMax(BreaksAtOrPast) + 1]_vars

\* the only break character of the window at or past the threshold is at
\* index 0.7 * chunk_size exactly, and the call has raised on that window
C23_WitnessBreakAtThresholdNotTaken ==
    /\ cpc = "raised"
    /\ RawEnd(chapter_text, start, chunk_size) < Len(chapter_text)
    /\ BreaksAtOrPast # {}
    /\ \A k \in BreaksAtOrPast : 10 * k = 7 * chunk_size
    /\ chunks = <<>>

\* ------------------------------------------------------------------------
\* C24, C25 (checked under SpecDetect)
\* ------------------------------------------------------------------------
\* the AI path has returned its validated list
AIPathReturned == det_pc = "returned" /\ det_path = "ai"

\* the candidates of the response and the lower-cased text they are searched in
Candidate(k) == ResponseChapters(response)[k]
CandidateIndices == 1..Len(ResponseChapters(response))
TextLower == LowerStr(det_text)

\* the division of the result made from a candidate with this title starts
\* at pos
KeptAt(title, pos) ==
    \E d \in 1..Len(det_result) :
        det_result[d].title = title /\ det_result[d].start_position = pos

\* the variants of a title that occur in the text, with the length
\* requirement on the first-token variant only
OccurringVariants(title) ==
    LET vs == SearchVariations(title)
    IN  {k \in 1..Len(vs) :
            /\ vs[k] # <<>>
            /\ k = Len(vs) => Len(vs[k]) > MinVariationLen
            /\ Find(TextLower, vs[k]) # -1}

\* C24: in the validation step a candidate whose non-empty title occurs
\* verbatim (case-insensitively) in the text is kept, starting at the first
\* occurrence of the title, whatever the title's length; the variants are
\* tried in the order verbatim, whitespace-stripped, punctuation-stripped,
\* first token, and only the first-token variant must be longer than 3.
C24_VerbatimTitleKeptAtAnyLength ==
    AIPathReturned =>
        \A k \in CandidateIndices :
            LET title == Strip(Candidate(k).title)
                vs == SearchVariations(title)
                occ == OccurringVariants(title)
            IN  /\ (title # <<>> /\ Find(TextLower, LowerStr(title)) # -1) =>
                      KeptAt(Candidate(k).title, Find(TextLower, LowerStr(title)))
                /\ (title # <<>> /\ occ # {}) =>
                      KeptAt(Candidate(k).title, Find(TextLower, vs[SetMin(occ)]))

\* a candidate whose title of two characters occurs in the text is not in
\* the returned list, while a longer title of the same response is
C24_WitnessShortTitleDropped ==
    /\ AIPathReturned
    /\ \E k \in CandidateIndices :
          /\ Candidate(k).title = TitleII
          /\ Find(TextLower, LowerStr(TitleII)) # -1
          /\ \A d \in 1..Len(det_result) : det_result[d].title # TitleII
    /\ Len(det_result) = 1

\* the variants of a title the search accepts (longer than 3 characters)
\* that occur in the text
FoundVariants(title) ==
    LET vs == SearchVariations(title)
    IN  {k \in 1..Len(vs) :
            Len(vs[k]) > MinVariationLen /\ Find(TextLower, vs[k]) # -1}

\* C25: the start offset the model reports is never used: every division the
\* AI path returns starts at the first occurrence, in the lower-cased text,
\* of the first of its title's search variants that the search finds; and a
\* candidate none of whose variants occurs in the text, or whose title is
\* empty, is absent from the result.
C25_StartIsWhereTheTitleWasFound ==
    AIPathReturned =>
        /\ \A d \in 1..Len(det_result) :
              LET title == Strip(det_result[d].title)
                  vs == SearchVariations(title)
              IN  /\ FoundVariants(title) # {}
                  /\ det_result[d].start_position =
                        Find(TextLower, vs[SetMin(FoundVariants(title))])
                  /\ det_result[d].start_position # ReportedStart
        /\ \A k \in CandidateIndices :
              LET title == Strip(Candidate(k).title)
                  vs == SearchVariations(title)
              IN  (\/ title = <<>>
                   \/ \A j \in 1..Len(vs) :
                         vs[j] = <<>> \/ Find(TextLower, vs[j]) = -1)
                      => \A d \in 1..Len(det_result) :
                            det_result[d].title # Candidate(k).title

\* the AI path returned a division located by its first token only, at an
\* offset other than the reported one, and dropped nothing else than what it
\* could not locate
C25_WitnessLocatedBySearch ==
    /\ AIPathReturned
    /\ Len(det_result) = 2
    /\ \E d \in 1..Len(det_result) :
          /\ det_result[d].title = TitleCapV
          /\ Find(TextLower, LowerStr(TitleCapV)) = -1
          /\ det_result[d].start_position = Find(TextLower, LowerStr(Capitulo))
          /\ det_result[d].start_position > 0

\* ------------------------------------------------------------------------
\* C26, C27, C28 (checked under SpecChunk)
\* ------------------------------------------------------------------------
\* C26: a non-empty chapter text no longer than the chunk size (equality
\* included) gives exactly one chunk, with is_chapter_complete true,
\* start_position 0, end_position the text length and the whole text as
\* content; every chunk of a longer chapter text has is_chapter_complete
\* false.
C26_CompleteFlagFollowsLength ==
    /\ (cpc = "returned" /\ chapter_text # <<>> /\ Len(chapter_text) <= chunk_size) =>
          /\ Len(chunks) = 1
          /\ chunks[1].is_chapter_complete
          /\ chunks[1].start_position = 0
          /\ chunks[1].end_position = Len(chapter_text)
          /\ chunks[1].content = chapter_text
    /\ Len(chapter_text) > chunk_size =>
          \A k \in 1..Len(chunks) : ~chunks[k].is_chapter_complete

\* a chapter text exactly as long as the chunk size came back as one complete
\* chunk
C26_WitnessLengthEqualsChunkSize ==
    /\ cpc = "returned"
    /\ Len(chapter_text) = chunk_size
    /\ Len(chunks) = 1
    /\ chunks[1].is_chapter_complete
    /\ chunks[1].end_position = chunk_size

\* the offsets of chunk k, and the number of them that are also offsets of
\* the chunk before it
Range(k) == chunks[k].start_position .. (chunks[k].end_position - 1)
Shared(k) == Cardinality(Range(k) \cap Range(k - 1))

\* C27: overlap_size is the number of characters a chunk's range shares with
\* the range of the previous chunk of the chapter: 0 for the first chunk,
\* and for every later chunk start_position is the previous end_position
\* minus the configured overlap and overlap_size is the configured overlap.
C27_OverlapSizeIsSharedCharacters ==
    \A k \in 1..Len(chunks) :
        IF k = 1 THEN chunks[k].overlap_size = 0
        ELSE /\ chunks[k].start_position = chunks[k - 1].end_position - overlap
             /\ chunks[k].overlap_size = overlap
             /\ chunks[k].overlap_size = Shared(k)

\* a chapter was cut into two chunks or more with an overlap of at least two
\* characters
C27_WitnessOverlappingChunks ==
    /\ cpc = "returned"
    /\ overlap >= 2
    /\ Len(chunks) >= 2
    /\ chunks[1].overlap_size = 0
    /\ chunks[2].overlap_size = overlap
    /\ Shared(2) = overlap

\* C28: with chunk_size > 0 and 0 <= overlap < chunk_size the start position
\* strictly increases from each iteration of the segmentation loop to the
\* next (so the loop terminates with a finite chunk list).
C28_StartStrictlyIncreases ==
    [][(cpc = "loop" /\ cpc' = "loop") => start' > start]_vars

\* with an overlap below the chunk size the loop is at its third iteration
\* or a later one with start where the last chunk started
C28_WitnessStartStandsStill ==
    /\ cpc = "loop"
    /\ 0 <= overlap
    /\ overlap < chunk_size
    /\ chunk_index >= 2
    /\ start = chunks[Len(chunks)].start_position
    /\ start = chunks[Len(chunks) - 1].start_position

\* ------------------------------------------------------------------------
\* C29, C30 (checked under SpecDoc)
\* ------------------------------------------------------------------------
\* text[absolute_start_position : absolute_end_position].strip() of chunk k
AddressedText(k) ==
    Strip(PySlice(doc_text, all_chunks[k].absolute_start_position,
                            all_chunks[k].absolute_end_position))

\* C29: the absolute offsets of every chunk of create_chapter_chunks address
\* the chunk's own text in the document: content equals
\* text[absolute_start_position : absolute_end_position] trimmed, also when
\* the chapter's span begins with whitespace.
C29_AbsoluteOffsetsAddressContent ==
    \A k \in 1..Len(all_chunks) : all_chunks[k].content = AddressedText(k)

\* a chunk of a chapter whose span begins with whitespace, cut in the loop,
\* holds other text than its absolute offsets address
C29_WitnessOffsetsShiftedByTrim ==
    /\ dpc = "returned"
    /\ \E k \in 1..Len(all_chunks) :
          /\ owners[k] >= 1
          /\ SpanLo(k) < Len(doc_text)
          /\ doc_text[SpanLo(k) + 1] \in Whitespace
          /\ ~all_chunks[k].is_chapter_complete
          /\ all_chunks[k].content # <<>>
          /\ all_chunks[k].content # AddressedText(k)

\* the offsets before the first chapter that hold a character other than
\* whitespace
PreambleOffsets ==
    {x \in 0..(doc_chapters[1].start_position - 1) : doc_text[x + 1] \notin Whitespace}

\* C30: when the chapter list is not empty and its first chapter starts at
\* an offset p > 0, every character before p that is not whitespace lies in
\* the absolute range of a chunk of the returned list.
C30_TextBeforeFirstChapterIsChunked ==
    (dpc = "returned" /\ doc_chapters # <<>>) =>
        \A x \in PreambleOffsets :
            \E k \in 1..Len(all_chunks) :
                /\ all_chunks[k].absolute_start_position <= x
                /\ x < all_chunks[k].absolute_end_position

\* the call returned the chunks of its chapters, none of which reaches back
\* to the text that precedes the first chapter
C30_WitnessPreambleInNoChunk ==
    /\ dpc = "returned"
    /\ doc_chapters # <<>>
    /\ PreambleOffsets # {}
    /\ all_chunks # <<>>
    /\ \A k \in 1..Len(all_chunks) :
          all_chunks[k].absolute_start_position >= doc_chapters[1].start_position
====
